---------------------------- MODULE Spec2Model ----------------------------
(***************************************************************************)
(* Time-accounting engine of work-tracker: the duration calculator         *)
(* (src/lib/tracker-utils.ts), the entry lifecycle writes                  *)
(* (src/lib/tracker-data.ts) and the dashboard handlers that call them.    *)
(*                                                                          *)
(* Instants are JavaScript Date values, held as milliseconds since the     *)
(* epoch.  A nullable field is <<>> (null) or <<v>>.  A stored Firestore   *)
(* document holds Timestamps, the TimeLog a caller receives holds Dates.   *)
(***************************************************************************)
EXTENDS Integers, Sequences, FiniteSets, TLC

VARIABLES
    doc,       \* SpecOps: the stored timeLogs document the operations write to
    now,       \* the instant the clock source returns (new Date())
    hist,      \* SpecOps: the operations applied so far, oldest first
    calcLog,   \* SpecCalc: the TimeLog handed to the duration calculator
    calcOut,   \* SpecCalc: the calculator function last applied and its result
    logs,      \* SpecApp: the dashboard's logs state, the last snapshot delivered
    clockBack, \* SpecSkew: whether the clock has been set back so far
    idle,      \* the idle monitor: lastActivityRef, idlePromptedRef, its
               \* interval, and what it has signalled so far
    calendarMonth, \* SpecDates: the month text the calendar is built for
    store,     \* SpecSession: the timeLogs collection; an id is a position
    logIds,    \* SpecSession: the ids of the entries of logs, in their order
    busy,      \* SpecSession: the busy state of the dashboard
    pending,   \* SpecSession: the writes sent and not yet settled, oldest first
    user,      \* SpecSession: the currentUser state of the dashboard
    mounted,   \* SpecSession: whether the dashboard component is mounted
    renderedNow, \* SpecSession: the now state, set by the one-second interval
    userDoc,   \* SpecProfile: the stored document of the user, raw
    profile,   \* SpecProfile: the profile state of the dashboard
    writtenProfile, \* SpecProfile: what saveUserProfile wrote last
    darkModeEnabled, \* SpecProfile: the darkModeEnabled state
    error,     \* the error state of the dashboard: the message shown
    showPdfExportModal, \* SpecExport: whether the export dialog is open
    pdfStartDate, \* SpecExport: the text of the start date input
    pdfEndDate,   \* SpecExport: the text of the end date input
    pdfFieldSelection, \* SpecExport: the set of the field keys selected
    savedPdf   \* SpecExport: the document the last step saved, if any

\* the state of the dashboard session that SpecSession follows
profileVars == <<userDoc, profile, writtenProfile, darkModeEnabled>>
pdfVars == <<showPdfExportModal, pdfStartDate, pdfEndDate, pdfFieldSelection,
             savedPdf>>
sessionVars == <<store, logIds, busy, pending, user, mounted, renderedNow,
                 profileVars, error, pdfVars>>

vars == <<doc, now, hist, calcLog, calcOut, logs, clockBack, idle,
          calendarMonth, sessionVars>>

---------------------------------------------------------------------------
(* Bounds of the model *)

\* instants are 0, Grain, 2*Grain, ..., MaxTime*Grain
MaxTime == 2
\* distance in milliseconds between two instants of the model (half a minute)
Grain == 30000
\* largest stored totalMinutes / breakMinutes an initial entry is drawn with
MaxMin == 1
\* number of lifecycle operations applied in a row to one entry
MaxOps == 2
\* number of break records the dashboard lets one entry collect
MaxBreaks == 2
\* SpecIdle: instants are 0, Grain, ..., MaxIdleTime*Grain
MaxIdleTime == 4
\* SpecIdle: the idleMinutes setting of the profile
IdleMinutes == 1
\* SpecIdle: the idle signals counted (further ones are still raised)
MaxSignals == 2
\* SpecReport: the number of entries the dashboard holds
MaxLogs == 2
\* SpecReport: the entries start at most this many days from 1970-01-01
MaxDay == 4
\* SpecReport: the longest report window, in days (the dashboard asks for 7)
MaxWindow == 7

(* Program constants *)

\* the 60_000 of tracker-utils.ts and tracker-data.ts: milliseconds per minute
MsPerMinute == 60000

Times == {k * Grain : k \in 0..MaxTime}

Null == <<>>
Some(v) == <<v>>
Opt(S) == {Null} \cup {Some(v) : v \in S}

Max(a, b) == IF a >= b THEN a ELSE b

\* LogStatus of tracker-types
LogStatus == {"completed", "active", "on-break"}

None == "none"

\* a variable a specification does not use holds one of these throughout
NoLog == [status |-> None]
NoOut == [fn |-> None, value |-> 0]
NoMonth == <<>>

\* the idle monitor when the dashboard mounts: the refs of part_000, no
\* interval yet, nothing signalled
InitialIdle ==
    [lastActivityRef |-> 0, idlePromptedRef |-> FALSE, interval |-> FALSE,
     signals |-> 0, total |-> 0, left |-> TRUE, signal |-> Null]

\* the session variables where no session is followed
NoProfile ==
    /\ userDoc = <<>>
    /\ profile = <<>>
    /\ writtenProfile = <<>>
    /\ darkModeEnabled = FALSE

NoPdf ==
    /\ showPdfExportModal = FALSE
    /\ pdfStartDate = <<>>
    /\ pdfEndDate = <<>>
    /\ pdfFieldSelection = {}
    /\ savedPdf = <<>>

NoSession ==
    /\ store = <<>>
    /\ logIds = <<>>
    /\ busy = FALSE
    /\ pending = <<>>
    /\ user = Null
    /\ mounted = FALSE
    /\ renderedNow = 0
    /\ NoProfile
    /\ error = <<>>
    /\ NoPdf

---------------------------------------------------------------------------
(* Conversions *)

\* Timestamp.fromDate: seconds and nanoseconds of a millisecond Date
TimestampFromDate(d) ==
    [seconds |-> d \div 1000, nanoseconds |-> (d % 1000) * 1000000]

\* Timestamp.toDate: back to milliseconds (sub-millisecond digits dropped)
TimestampToDate(ts) == ts.seconds * 1000 + ts.nanoseconds \div 1000000

\* Date.prototype.toISOString: a string, not a Date; it carries the instant
\* to the millisecond
toISOString(d) == [iso |-> d]

\* readDate on a stored field: null stays null, a Timestamp becomes a Date
readDate(value) ==
    IF value = Null THEN Null ELSE Some(TimestampToDate(value[1]))

---------------------------------------------------------------------------
(* Duration calculator, tracker-utils.ts *)

calculateWorkedMilliseconds_NoClamp(log, at) ==
    LET end == IF log.endTime = Null THEN at ELSE log.endTime[1]
        durationMs == Max(0, end - log.startTime)
        storedBreakMs == Max(0, log.breakMinutes) * MsPerMinute
        runningBreakMs ==
            IF log.status = "on-break" /\ log.breakStartedAt # Null
            THEN Max(0, at - log.breakStartedAt[1])
            ELSE 0
    IN  durationMs - storedBreakMs - runningBreakMs

calculateWorkedMilliseconds_AnyBreakStart(log, at) ==
    LET end == IF log.endTime = Null THEN at ELSE log.endTime[1]
        durationMs == Max(0, end - log.startTime)
        storedBreakMs == Max(0, log.breakMinutes) * MsPerMinute
        runningBreakMs ==
            IF log.breakStartedAt # Null
            THEN Max(0, at - log.breakStartedAt[1])
            ELSE 0
    IN  Max(0, durationMs - storedBreakMs - runningBreakMs)

calculateWorkedMilliseconds(log, at) ==
    LET end == IF log.endTime = Null THEN at ELSE log.endTime[1]
        durationMs == Max(0, end - log.startTime)
        storedBreakMs == Max(0, log.breakMinutes) * MsPerMinute
        runningBreakMs ==
            IF log.status = "on-break" /\ log.breakStartedAt # Null
            THEN Max(0, at - log.breakStartedAt[1])
            ELSE 0
    IN  Max(0, durationMs - storedBreakMs - runningBreakMs)

calculateWorkedMinutes(log, at) ==
    calculateWorkedMilliseconds(log, at) \div MsPerMinute

getLogMinutes_NoFloor(log, at) == calculateWorkedMinutes(log, at)
getLogMinutes_LiveClock(log, at) == Max(log.totalMinutes, calculateWorkedMinutes([log EXCEPT !.endTime = Null], at))

getLogMinutes(log, at) ==
    IF log.endTime # Null
    THEN Max(log.totalMinutes, calculateWorkedMinutes(log, at))
    ELSE calculateWorkedMinutes(log, at)

---------------------------------------------------------------------------
(* The calendar of a JavaScript Date.  Local time is taken without offset  *)
(* and without daylight saving, so a local day is a whole number of        *)
(* MsPerDay.  A day is counted from 1970-01-01 (day 0, a Thursday).        *)

MsPerDay == 86400000

\* DayFromYear of ECMAScript: the day number of 1 January of year y
DayFromYear(y) ==
    365 * (y - 1970) + ((y - 1969) \div 4) - ((y - 1901) \div 100)
        + ((y - 1601) \div 400)

DaysInYear(y) == DayFromYear(y + 1) - DayFromYear(y)

\* days of month m (1..12) of year y
DaysInMonth(y, m) ==
    IF m = 2
    THEN IF DaysInYear(y) = 366 THEN 29 ELSE 28
    ELSE IF m \in {4, 6, 9, 11} THEN 30 ELSE 31

RECURSIVE DaysBeforeMonth(_, _)
DaysBeforeMonth(y, m) ==
    IF m = 1 THEN 0 ELSE DaysBeforeMonth(y, m - 1) + DaysInMonth(y, m - 1)

\* MakeDay of ECMAScript: month index mi and day of month dom may lie outside
\* the month, as setDate and the Date constructor allow
MakeDay(y, mi, dom) ==
    LET ym == y + (mi \div 12)
        mn == (mi % 12) + 1
    IN  DayFromYear(ym) + DaysBeforeMonth(ym, mn) + dom - 1

\* YearFromTime, MonthFromTime and DateFromTime of ECMAScript for a day number
YearFromDay(n) ==
    LET guess == 1970 + ((n * 400) \div 146097)
    IN  IF n < DayFromYear(guess) THEN guess - 1
        ELSE IF n >= DayFromYear(guess + 1) THEN guess + 1
        ELSE guess

RECURSIVE MonthFromDay(_, _, _)
MonthFromDay(y, m, inMonth) ==
    IF inMonth < DaysInMonth(y, m)
    THEN [year |-> y, month |-> m, day |-> inMonth + 1]
    ELSE MonthFromDay(y, m + 1, inMonth - DaysInMonth(y, m))

DateInYear(y, n) == MonthFromDay(y, 1, n - DayFromYear(y))

CivilFromDay(n) == DateInYear(YearFromDay(n), n)

\* getDay: 0 is Sunday
WeekDay(n) == (n + 4) % 7

\* date.setDate(dom) on a date of day n
SetDate(n, dom) ==
    LET c == CivilFromDay(n) IN MakeDay(c.year, c.month - 1, dom)

\* new Date(year, monthIndex, day, 0, 0, 0, 0): a year 0..99 is read as
\* 1900 + year; the result is the day number of that local midnight
NewDate(year, monthIndex, day) ==
    LET full == IF year >= 0 /\ year <= 99 THEN 1900 + year ELSE year
    IN  MakeDay(full, monthIndex, day)

\* the local day of an instant, and the instant of a local midnight
DayOf(date) == date \div MsPerDay
Midnight(n) == n * MsPerDay

\* toDayKey of tracker-utils.ts: year, month and day of the local date
toDayKey(date) ==
    LET c == CivilFromDay(DayOf(date)) IN <<c.year, c.month, c.day>>

---------------------------------------------------------------------------
(* Reading a stored document, tracker-data.ts *)

normalizeStatus(value) ==
    IF value \in LogStatus THEN value ELSE "completed"

normalizeBreaks(value) ==
    [i \in 1..Len(value) |->
        [startTime |-> value[i].startTime,
         endTime |-> value[i].endTime,
         durationMinutes |-> Max(0, value[i].durationMinutes)]]

\* the TimeLog the subscription delivers for a stored document
normalizeTimeLog(data) ==
    [userId         |-> data.userId,
     startTime      |-> TimestampToDate(data.startTime),
     endTime        |-> readDate(data.endTime),
     totalMinutes   |-> Max(0, data.totalMinutes),
     breakMinutes   |-> Max(0, data.breakMinutes),
     breaks         |-> normalizeBreaks(data.breaks),
     status         |-> normalizeStatus(data.status),
     breakStartedAt |-> readDate(data.breakStartedAt),
     source         |-> IF data.source = "manual" THEN "manual" ELSE "timer"]

\* updateDoc: the fields named in the update are overwritten, the others kept
updateDoc(data, update) ==
    [f \in DOMAIN data |-> IF f \in DOMAIN update THEN update[f] ELSE data[f]]

---------------------------------------------------------------------------
(* Entry lifecycle writes, tracker-data.ts.  Each returns the error it     *)
(* throws (None when it does not throw) and the update it hands updateDoc. *)

NoUpdate == <<>>
BreakStartMissing == "Break start time is missing."
InvalidStateError == "InvalidStateError"

startBreak_NoStart(logId, breakStartedAt) ==
    [err |-> None,
     update |-> [status |-> "on-break"]]

startBreak_KeepsStatus(logId, breakStartedAt) ==
    [err |-> None,
     update |-> [breakStartedAt |-> Some(TimestampFromDate(breakStartedAt))]]

startBreak(logId, breakStartedAt) ==
    [err |-> None,
     update |-> [status |-> "on-break",
                 breakStartedAt |-> Some(TimestampFromDate(breakStartedAt))]]

endBreak_SwappedRecord(log, breakEndedAt) ==
    IF log.breakStartedAt = Null
    THEN [err |-> BreakStartMissing, update |-> NoUpdate]
    ELSE
        LET breakDurationMinutes ==
                Max(0, (breakEndedAt - log.breakStartedAt[1]) \div MsPerMinute)
            nextBreakMinutes == log.breakMinutes + breakDurationMinutes
            nextBreaks ==
                Append(log.breaks,
                       [startTime |-> toISOString(breakEndedAt),
                        endTime |-> toISOString(log.breakStartedAt[1]),
                        durationMinutes |-> breakDurationMinutes])
        IN  [err |-> None,
             update |-> [status |-> "active",
                         breakStartedAt |-> Null,
                         breakMinutes |-> nextBreakMinutes,
                         breaks |-> nextBreaks]]

endBreak_NoAccumulate(log, breakEndedAt) ==
    IF log.breakStartedAt = Null
    THEN [err |-> BreakStartMissing, update |-> NoUpdate]
    ELSE
        LET breakDurationMinutes ==
                Max(0, (breakEndedAt - log.breakStartedAt[1]) \div MsPerMinute)
            nextBreaks ==
                Append(log.breaks,
                       [startTime |-> toISOString(log.breakStartedAt[1]),
                        endTime |-> toISOString(breakEndedAt),
                        durationMinutes |-> breakDurationMinutes])
        IN  [err |-> None,
             update |-> [status |-> "active",
                         breakStartedAt |-> Null,
                         breakMinutes |-> breakDurationMinutes,
                         breaks |-> nextBreaks]]

endBreak(log, breakEndedAt) ==
    IF log.breakStartedAt = Null
    THEN [err |-> BreakStartMissing, update |-> NoUpdate]
    ELSE
        LET breakDurationMinutes ==
                Max(0, (breakEndedAt - log.breakStartedAt[1]) \div MsPerMinute)
            nextBreakMinutes == log.breakMinutes + breakDurationMinutes
            nextBreaks ==
                Append(log.breaks,
                       [startTime |-> toISOString(log.breakStartedAt[1]),
                        endTime |-> toISOString(breakEndedAt),
                        durationMinutes |-> breakDurationMinutes])
        IN  [err |-> None,
             update |-> [status |-> "active",
                         breakStartedAt |-> Null,
                         breakMinutes |-> nextBreakMinutes,
                         breaks |-> nextBreaks]]

clockOut_GrossOnly(log, clockOutAt) ==
    LET grossMinutes == Max(0, (clockOutAt - log.startTime) \div MsPerMinute)
    IN  [err |-> None,
         update |-> [endTime |-> Some(TimestampFromDate(clockOutAt)),
                     totalMinutes |-> grossMinutes,
                     breakMinutes |-> Max(0, log.breakMinutes),
                     breaks |-> log.breaks,
                     breakStartedAt |-> Null,
                     status |-> "completed"]]

clockOut_DropsRunningBreak(log, clockOutAt) ==
    LET nextBreakMinutes == Max(0, log.breakMinutes)
        grossMinutes == Max(0, (clockOutAt - log.startTime) \div MsPerMinute)
        totalMinutes == Max(0, grossMinutes - nextBreakMinutes)
    IN  [err |-> None,
         update |-> [endTime |-> Some(TimestampFromDate(clockOutAt)),
                     totalMinutes |-> totalMinutes,
                     breakMinutes |-> nextBreakMinutes,
                     breaks |-> log.breaks,
                     breakStartedAt |-> Null,
                     status |-> "completed"]]

clockOut(log, clockOutAt) ==
    LET onBreak == log.status = "on-break" /\ log.breakStartedAt # Null
        inProgressBreakMinutes ==
            Max(0, (clockOutAt - log.breakStartedAt[1]) \div MsPerMinute)
        nextBreakMinutes ==
            IF onBreak
            THEN Max(0, log.breakMinutes) + inProgressBreakMinutes
            ELSE Max(0, log.breakMinutes)
        nextBreaks ==
            IF onBreak
            THEN Append(log.breaks,
                        [startTime |-> toISOString(log.breakStartedAt[1]),
                         endTime |-> toISOString(clockOutAt),
                         durationMinutes |-> inProgressBreakMinutes])
            ELSE log.breaks
        grossMinutes == Max(0, (clockOutAt - log.startTime) \div MsPerMinute)
        totalMinutes == Max(0, grossMinutes - nextBreakMinutes)
    IN  [err |-> None,
         update |-> [endTime |-> Some(TimestampFromDate(clockOutAt)),
                     totalMinutes |-> totalMinutes,
                     breakMinutes |-> nextBreakMinutes,
                     breaks |-> nextBreaks,
                     breakStartedAt |-> Null,
                     status |-> "completed"]]

\* the addDoc / updateDoc payload of an operation that writes nothing
NoAdd == Null

startTimerLog_Manual(input) ==
    [err |-> None,
     add |-> Some([userId |-> input.userId,
                   startTime |-> TimestampFromDate(input.startTime),
                   endTime |-> Null,
                   totalMinutes |-> 0,
                   breakMinutes |-> 0,
                   breaks |-> <<>>,
                   status |-> "active",
                   breakStartedAt |-> Null,
                   source |-> "manual"]),
     update |-> NoUpdate]

\* startTimerLog: addDoc of a running entry; the input is not validated
startTimerLog(input) ==
    [err |-> None,
     add |-> Some([userId |-> input.userId,
                   startTime |-> TimestampFromDate(input.startTime),
                   endTime |-> Null,
                   totalMinutes |-> 0,
                   breakMinutes |-> 0,
                   breaks |-> <<>>,
                   status |-> "active",
                   breakStartedAt |-> Null,
                   source |-> "timer"]),
     update |-> NoUpdate]

addManualLog_NoDuration(input) ==
    [err |-> None,
     add |-> Some([userId |-> input.userId,
                   startTime |-> TimestampFromDate(input.startTime),
                   endTime |-> Some(TimestampFromDate(input.endTime)),
                   totalMinutes |-> 0,
                   breakMinutes |-> 0,
                   breaks |-> <<>>,
                   status |-> "completed",
                   breakStartedAt |-> Null,
                   source |-> "manual"]),
     update |-> NoUpdate]

\* addManualLog: addDoc of a completed entry; the input is not validated
addManualLog(input) ==
    LET durationMinutes ==
            Max(0, (input.endTime - input.startTime) \div MsPerMinute)
    IN  [err |-> None,
         add |-> Some([userId |-> input.userId,
                       startTime |-> TimestampFromDate(input.startTime),
                       endTime |-> Some(TimestampFromDate(input.endTime)),
                       totalMinutes |-> durationMinutes,
                       breakMinutes |-> 0,
                       breaks |-> <<>>,
                       status |-> "completed",
                       breakStartedAt |-> Null,
                       source |-> "manual"]),
         update |-> NoUpdate]

EndNotLater == "End time must be later than start time."

updateTimeLog_GrossOnly(log, input) ==
    IF input.endTime <= input.startTime
    THEN [err |-> EndNotLater, update |-> NoUpdate]
    ELSE LET grossMinutes ==
                 Max(0, (input.endTime - input.startTime) \div MsPerMinute)
         IN  [err |-> None,
              update |-> [startTime |-> TimestampFromDate(input.startTime),
                          endTime |-> Some(TimestampFromDate(input.endTime)),
                          totalMinutes |-> grossMinutes,
                          status |-> "completed",
                          breakStartedAt |-> Null]]

updateTimeLog_NoValidation(log, input) ==
    LET grossMinutes ==
            Max(0, (input.endTime - input.startTime) \div MsPerMinute)
        breakMinutes == Max(0, log.breakMinutes)
        totalMinutes == Max(0, grossMinutes - breakMinutes)
    IN  [err |-> None,
         update |-> [startTime |-> TimestampFromDate(input.startTime),
                     endTime |-> Some(TimestampFromDate(input.endTime)),
                     totalMinutes |-> totalMinutes,
                     status |-> "completed",
                     breakStartedAt |-> Null]]

\* updateTimeLog: throws before any write when the new end is not later than
\* the new start; breakMinutes and breaks are not part of the update
updateTimeLog(log, input) ==
    IF input.endTime <= input.startTime
    THEN [err |-> EndNotLater, update |-> NoUpdate]
    ELSE LET grossMinutes ==
                 Max(0, (input.endTime - input.startTime) \div MsPerMinute)
             breakMinutes == Max(0, log.breakMinutes)
             totalMinutes == Max(0, grossMinutes - breakMinutes)
         IN  [err |-> None,
              update |-> [startTime |-> TimestampFromDate(input.startTime),
                          endTime |-> Some(TimestampFromDate(input.endTime)),
                          totalMinutes |-> totalMinutes,
                          status |-> "completed",
                          breakStartedAt |-> Null]]

---------------------------------------------------------------------------
(* Specification SpecOps: start-break, end-break and clock-out applied to  *)
(* any stored entry, each on the entry's latest snapshot, at the instant   *)
(* the clock returns.                                                      *)

LogId == "log1"

\* uid of the signed-in user
UserId == "u1"

\* a break recorded before the run starts
SampleBreak ==
    [startTime |-> toISOString(0), endTime |-> toISOString(0),
     durationMinutes |-> 0]

\* the documents the timeLogs collection can hold for one entry, those with
\* a broken status / breakStartedAt / endTime combination included
StoredDocs ==
    [ userId         : {UserId},
      startTime      : {TimestampFromDate(t) : t \in Times},
      endTime        : Opt({TimestampFromDate(t) : t \in Times}),
      totalMinutes   : 0..MaxMin,
      breakMinutes   : 0..MaxMin,
      breaks         : {<<>>, <<SampleBreak>>},
      status         : LogStatus,
      breakStartedAt : Opt({TimestampFromDate(t) : t \in Times}),
      source         : {"timer"} ]

InitOps ==
    /\ NoSession
    /\ doc \in StoredDocs
    /\ now \in Times
    /\ hist = <<>>
    /\ calcLog = NoLog
    /\ calcOut = NoOut
    /\ logs = <<>>
    /\ clockBack = FALSE
    /\ idle = InitialIdle
    /\ calendarMonth = NoMonth

\* the write of an operation reaches the document unless the operation threw
Written(data, r) == IF r.err = None THEN updateDoc(data, r.update) ELSE data

Record(op, r) == [op |-> op, at |-> now, err |-> r.err, data |-> doc]

StartBreak ==
    /\ Len(hist) < MaxOps
    /\ LET r == startBreak(LogId, now)
       IN  /\ doc' = Written(doc, r)
           /\ hist' = Append(hist, Record("startBreak", r))
    /\ UNCHANGED <<sessionVars, now, calcLog, calcOut, logs, clockBack, idle,
                 calendarMonth>>

EndBreak ==
    /\ Len(hist) < MaxOps
    /\ LET r == endBreak(normalizeTimeLog(doc), now)
       IN  /\ doc' = Written(doc, r)
           /\ hist' = Append(hist, Record("endBreak", r))
    /\ UNCHANGED <<sessionVars, now, calcLog, calcOut, logs, clockBack, idle,
                 calendarMonth>>

ClockOut ==
    /\ Len(hist) < MaxOps
    /\ LET r == clockOut(normalizeTimeLog(doc), now)
       IN  /\ doc' = Written(doc, r)
           /\ hist' = Append(hist, Record("clockOut", r))
    /\ UNCHANGED <<sessionVars, now, calcLog, calcOut, logs, clockBack, idle,
                 calendarMonth>>

NextOps ==
    \/ StartBreak
    \/ EndBreak
    \/ ClockOut

SpecOps == InitOps /\ [][NextOps]_vars

---------------------------------------------------------------------------
(* Specification SpecEdit: updateTimeLog applied to any stored entry, on   *)
(* the entry's latest snapshot, with any pair of new start and end.        *)

InitEdit ==
    /\ NoSession
    /\ doc \in StoredDocs
    /\ now = 0
    /\ hist = <<>>
    /\ calcLog = NoLog
    /\ calcOut = NoOut
    /\ logs = <<>>
    /\ clockBack = FALSE
    /\ idle = InitialIdle
    /\ calendarMonth = NoMonth

\* hist holds the last edit only: its input and the document it was applied to
UpdateTimeLog ==
    /\ \E newStart \in Times, newEnd \in Times :
          LET input == [startTime |-> newStart, endTime |-> newEnd]
              r == updateTimeLog(normalizeTimeLog(doc), input)
          IN  /\ doc' = Written(doc, r)
              /\ hist' = <<[op |-> "updateTimeLog", at |-> now, err |-> r.err,
                            data |-> doc, input |-> input]>>
    /\ UNCHANGED <<sessionVars, now, calcLog, calcOut, logs, clockBack, idle,
                 calendarMonth>>

NextEdit == UpdateTimeLog

SpecEdit == InitEdit /\ [][NextEdit]_vars

---------------------------------------------------------------------------
(* The dashboard, part_000: the handlers of the clock, break and manual    *)
(* log controls.  Each returns the message it hands setError (None when it *)
(* hands none) and the addDoc / updateDoc payload of the write it makes.   *)

ManualLogInvalid ==
    "Manual log needs a valid date and an end time after start time."

\* parseDateAndTime of tracker-utils.ts.  A well-formed date text is held as
\* <<instant of its local midnight>>, a well-formed HH:MM text as <<minutes
\* since midnight>>, any other text as <<>>; an Invalid Date gives null.
parseDateAndTime(dateText, timeText) ==
    IF dateText = Null \/ timeText = Null
    THEN Null
    ELSE Some(dateText[1] + timeText[1] * MsPerMinute)

\* subscribeTimeLogs: the user's entries, normalised (one entry is followed)
subscribeTimeLogs(userId, data) ==
    IF data.status = None \/ data.userId # userId
    THEN <<>>
    ELSE <<normalizeTimeLog(data)>>

\* activeLog: the first entry of logs whose endTime is null, or null
activeLog(ls) ==
    LET running == {i \in 1..Len(ls) : ls[i].endTime = Null}
    IN  IF running = {}
        THEN Null
        ELSE Some(ls[CHOOSE i \in running : \A j \in running : i <= j])

\* a handler that returns before setBusy
Returned == [err |-> None, add |-> NoAdd, update |-> NoUpdate]

\* try / catch of a handler around an updateDoc call of tracker-data.ts
Caught(r) == [err |-> r.err, add |-> NoAdd, update |-> r.update]

handleClockToggle(currentUser, active, at) ==
    IF currentUser = Null
    THEN Returned
    ELSE IF active = Null
         THEN startTimerLog([userId |-> currentUser[1], startTime |-> at])
         ELSE Caught(clockOut(active[1], at))

handleBreakToggle(active, at) ==
    IF active = Null
    THEN Returned
    ELSE IF active[1].status = "on-break"
         THEN Caught(endBreak(active[1], at))
         ELSE Caught(startBreak(LogId, at))

handleManualSubmit_NoOrderCheck(currentUser, manualDate, manualStartTime, manualEndTime) ==
    IF currentUser = Null
    THEN Returned
    ELSE LET startTime == parseDateAndTime(manualDate, manualStartTime)
             endTime == parseDateAndTime(manualDate, manualEndTime)
         IN  IF startTime = Null \/ endTime = Null
             THEN [err |-> ManualLogInvalid, add |-> NoAdd,
                   update |-> NoUpdate]
             ELSE addManualLog([userId |-> currentUser[1],
                                startTime |-> startTime[1],
                                endTime |-> endTime[1]])

handleManualSubmit(currentUser, manualDate, manualStartTime, manualEndTime) ==
    IF currentUser = Null
    THEN Returned
    ELSE LET startTime == parseDateAndTime(manualDate, manualStartTime)
             endTime == parseDateAndTime(manualDate, manualEndTime)
         IN  IF \/ startTime = Null
                \/ endTime = Null
                \/ endTime[1] <= startTime[1]
             THEN [err |-> ManualLogInvalid, add |-> NoAdd,
                   update |-> NoUpdate]
             ELSE addManualLog([userId |-> currentUser[1],
                                startTime |-> startTime[1],
                                endTime |-> endTime[1]])

---------------------------------------------------------------------------
(* The idle monitor of part_000: the activity listener, the effect that    *)
(* installs the 30 s interval, and the interval's callback.  They act on   *)
(* the fields lastActivityRef, idlePromptedRef and interval of idle.       *)

Min(a, b) == IF a <= b THEN a ELSE b

trackActivity(refs, at) ==
    [refs EXCEPT !.lastActivityRef = at, !.idlePromptedRef = FALSE]

idleEffect_AnyRunning(refs, active) ==
    IF active = Null
    THEN [refs EXCEPT !.idlePromptedRef = FALSE, !.interval = FALSE]
    ELSE [refs EXCEPT !.interval = TRUE]

\* the effect on activeLog: the cleanup of the previous run clears the
\* interval, the new run installs one only for an active entry
idleEffect(refs, active) ==
    IF active = Null \/ active[1].status # "active"
    THEN [refs EXCEPT !.idlePromptedRef = FALSE, !.interval = FALSE]
    ELSE [refs EXCEPT !.interval = TRUE]

idleCheck_NoFlag(refs, at, idleMinutes) ==
    LET idleThresholdMs == idleMinutes * MsPerMinute
    IN  IF refs.idlePromptedRef \/ at - refs.lastActivityRef < idleThresholdMs
        THEN [raised |-> FALSE, refs |-> refs]
        ELSE [raised |-> TRUE, refs |-> refs]

\* the interval callback up to the prompt: whether it prompts, and the refs
idleCheck(refs, at, idleMinutes) ==
    LET idleThresholdMs == idleMinutes * MsPerMinute
    IN  IF refs.idlePromptedRef \/ at - refs.lastActivityRef < idleThresholdMs
        THEN [raised |-> FALSE, refs |-> refs]
        ELSE [raised |-> TRUE, refs |-> [refs EXCEPT !.idlePromptedRef = TRUE]]

---------------------------------------------------------------------------
(* Specification SpecApp: one entry followed from its creation.  The       *)
(* handlers act on the dashboard's logs state, which is the last snapshot  *)
(* the subscription delivered and may be older than the stored document;   *)
(* updateTimeLog is called with an entry of logs.  The clock only advances.*)
(* hist holds the last operation only: name, instant, error and inputs.    *)

\* the time texts the manual form is submitted with
TimeTexts == Opt(0..MaxMin)
\* the date texts the manual form is submitted with
DateTexts == Opt({0})
\* the instants an edit is submitted with: the earliest and the latest
EditTimes == {0, MaxTime * Grain}

InitApp ==
    /\ NoSession
    /\ doc = NoLog
    /\ logs = <<>>
    /\ clockBack = FALSE
    /\ idle = InitialIdle
    /\ calendarMonth = NoMonth
    /\ now = 0
    /\ hist = <<>>
    /\ calcLog = NoLog
    /\ calcOut = NoOut

\* addDoc creates the document, updateDoc overwrites fields of it (and is
\* rejected when there is no document), a thrown error or an early return
\* leaves it alone
Applied(data, r) ==
    IF r.err # None
    THEN data
    ELSE IF r.add # NoAdd
         THEN r.add[1]
         ELSE IF data.status = None THEN data ELSE updateDoc(data, r.update)

\* the break records a handler's write would leave on the entry
BreaksAfter(active) ==
    IF active # Null /\ active[1].status = "on-break"
    THEN Len(active[1].breaks) + 1
    ELSE 0

HandleClockToggle ==
    /\ \E currentUser \in Opt({UserId}) :
          LET active == activeLog(logs)
              r == handleClockToggle(currentUser, active, now)
          IN  /\ r.add # NoAdd => doc.status = None
              /\ BreaksAfter(active) <= MaxBreaks
              /\ doc' = Applied(doc, r)
              /\ hist' = <<[op |-> "handleClockToggle", at |-> now,
                            err |-> r.err,
                            input |-> [currentUser |-> currentUser,
                                       activeLog |-> active]]>>
    /\ UNCHANGED <<sessionVars, now, calcLog, calcOut, logs, clockBack, idle,
                 calendarMonth>>

HandleBreakToggle ==
    /\ LET active == activeLog(logs)
           r == handleBreakToggle(active, now)
       IN  /\ BreaksAfter(active) <= MaxBreaks
           /\ doc' = Applied(doc, r)
           /\ hist' = <<[op |-> "handleBreakToggle", at |-> now,
                         err |-> r.err,
                         input |-> [activeLog |-> active]]>>
    /\ UNCHANGED <<sessionVars, now, calcLog, calcOut, logs, clockBack, idle,
                 calendarMonth>>

HandleManualSubmit ==
    /\ doc.status = None
    /\ \E currentUser \in Opt({UserId}), manualDate \in DateTexts,
          manualStartTime \in TimeTexts, manualEndTime \in TimeTexts :
          LET r == handleManualSubmit(currentUser, manualDate,
                                      manualStartTime, manualEndTime)
          IN  /\ doc' = Applied(doc, r)
              /\ hist' = <<[op |-> "handleManualSubmit", at |-> now,
                            err |-> r.err,
                            input |-> [currentUser |-> currentUser,
                                       manualDate |-> manualDate,
                                       manualStartTime |-> manualStartTime,
                                       manualEndTime |-> manualEndTime]]>>
    /\ UNCHANGED <<sessionVars, now, calcLog, calcOut, logs, clockBack, idle,
                 calendarMonth>>

\* updateTimeLog has no caller in the dashboard: it is called with an entry
\* of logs and a new start and end out of EditTimes
UpdateTimeLogOfLogs ==
    /\ \E i \in 1..Len(logs), newStart \in EditTimes, newEnd \in EditTimes :
          LET input == [startTime |-> newStart, endTime |-> newEnd]
              r == Caught(updateTimeLog(logs[i], input))
          IN  /\ doc' = Applied(doc, r)
              /\ hist' = <<[op |-> "updateTimeLog", at |-> now,
                            err |-> r.err, input |-> input]>>
    /\ UNCHANGED <<sessionVars, now, calcLog, calcOut, logs, clockBack, idle,
                 calendarMonth>>

\* the subscription delivers the stored document to setLogs; the idle
\* effect runs on the new activeLog.  idle.left records that the entry was
\* seen not active since the last activity.
OnSnapshot ==
    /\ logs' = subscribeTimeLogs(UserId, doc)
    /\ logs' # logs
    /\ LET refs == idleEffect(idle, activeLog(logs'))
       IN  idle' = [refs EXCEPT !.left = idle.left \/ ~refs.interval]
    /\ UNCHANGED <<sessionVars, doc, now, hist, calcLog, calcOut, clockBack,
                 calendarMonth>>

\* time passes
ClockAdvance ==
    /\ now < MaxTime * Grain
    /\ now' = now + Grain
    /\ UNCHANGED <<sessionVars, doc, hist, calcLog, calcOut, logs, clockBack, idle,
                 calendarMonth>>

NextApp ==
    \/ HandleClockToggle
    \/ HandleBreakToggle
    \/ HandleManualSubmit
    \/ UpdateTimeLogOfLogs
    \/ OnSnapshot
    \/ ClockAdvance

SpecApp == InitApp /\ [][NextApp]_vars

---------------------------------------------------------------------------
(* Specification SpecLife: SpecApp with the clock and break toggles only:  *)
(* the entry is created by start-timer and no form or edit touches it.     *)

NextLife ==
    \/ HandleClockToggle
    \/ HandleBreakToggle
    \/ OnSnapshot
    \/ ClockAdvance

SpecLife == InitApp /\ [][NextLife]_vars

---------------------------------------------------------------------------
(* Specification SpecSkew: SpecApp with a clock that can also be set back, *)
(* as new Date() follows the device's wall clock.  One setting back is     *)
(* followed.                                                               *)

ClockSetBack ==
    /\ ~clockBack
    /\ now > 0
    /\ now' = now - Grain
    /\ clockBack' = TRUE
    /\ UNCHANGED <<sessionVars, doc, hist, calcLog, calcOut, logs, idle,
                 calendarMonth>>

NextSkew ==
    \/ NextApp
    \/ ClockSetBack

SpecSkew == InitApp /\ [][NextSkew]_vars

---------------------------------------------------------------------------
(* Specification SpecIdle: the idle monitor beside an entry that any       *)
(* session of the user may start, put on break, resume or clock out.       *)
(* idle.signals counts the prompts since the last activity, idle.total all *)
(* prompts (both up to MaxSignals), idle.signal describes the last prompt. *)

IdleActive == startTimerLog([userId |-> UserId, startTime |-> 0]).add[1]
IdleOnBreak == Written(IdleActive, startBreak(LogId, 0))
IdleCompleted == Written(IdleActive, clockOut(normalizeTimeLog(IdleActive), 0))

\* what the store can hold for the entry after a write of some session
IdleDocs == {NoLog, IdleActive, IdleOnBreak, IdleCompleted}

InitIdle ==
    /\ NoSession
    /\ doc = NoLog
    /\ logs = <<>>
    /\ now = 0
    /\ hist = <<>>
    /\ calcLog = NoLog
    /\ calcOut = NoOut
    /\ clockBack = FALSE
    /\ idle = InitialIdle
    /\ calendarMonth = NoMonth

\* a mousemove, keydown, click, scroll or touchstart on the window
TrackActivity ==
    /\ LET refs == trackActivity(idle, now)
       IN  idle' = [refs EXCEPT !.signals = 0, !.left = ~refs.interval]
    /\ UNCHANGED <<sessionVars, doc, now, hist, calcLog, calcOut, logs, clockBack,
                 calendarMonth>>

\* a lifecycle write of this or another session reaches the store
StoreChange ==
    /\ doc' \in IdleDocs
    /\ doc' # doc
    /\ UNCHANGED <<sessionVars, now, hist, calcLog, calcOut, logs, clockBack, idle,
                 calendarMonth>>

StatusSeen(ls) ==
    IF activeLog(ls) = Null THEN None ELSE activeLog(ls)[1].status

\* the interval fires: the check, the prompt, and on Cancel the break toggle
PollTick ==
    /\ idle.interval
    /\ \E keepTracking \in BOOLEAN :
          LET r == idleCheck(idle, now, IdleMinutes)
          IN  IF r.raised
              THEN /\ idle' = [r.refs EXCEPT
                                 !.signals = Min(idle.signals + 1, MaxSignals),
                                 !.total = Min(idle.total + 1, MaxSignals),
                                 !.signal = Some([at |-> now,
                                                  idleFor |-> now - idle.lastActivityRef,
                                                  status |-> StatusSeen(logs)])]
                   /\ doc' = IF keepTracking
                             THEN doc
                             ELSE Applied(doc, handleBreakToggle(activeLog(logs), now))
              ELSE /\ idle' = r.refs
                   /\ doc' = doc
    /\ UNCHANGED <<sessionVars, now, hist, calcLog, calcOut, logs, clockBack,
                 calendarMonth>>

IdleTimePasses ==
    /\ now < MaxIdleTime * Grain
    /\ now' = now + Grain
    /\ UNCHANGED <<sessionVars, doc, hist, calcLog, calcOut, logs, clockBack, idle,
                 calendarMonth>>

NextIdle ==
    \/ TrackActivity
    \/ StoreChange
    \/ OnSnapshot
    \/ PollTick
    \/ IdleTimePasses

SpecIdle == InitIdle /\ [][NextIdle]_vars

\* the interval keeps firing while it is installed
SpecIdleFair == SpecIdle /\ WF_vars(PollTick)

---------------------------------------------------------------------------
(* Reports: tracker-utils.ts and part_000.  A JavaScript Map is the list   *)
(* of its <<key, value>> pairs in insertion order; a quotient of numbers   *)
(* is kept as <<numerator, denominator>>.                                  *)

MapHas(map, key) == \E i \in 1..Len(map) : map[i][1] = key
MapGet(map, key) == map[CHOOSE i \in 1..Len(map) : map[i][1] = key][2]
MapSet(map, key, value) ==
    IF MapHas(map, key)
    THEN [i \in 1..Len(map) |->
            IF map[i][1] = key THEN <<key, value>> ELSE map[i]]
    ELSE Append(map, <<key, value>>)

\* Array.prototype.sort with a comparator that subtracts the instants in
\* keys (keys[i] for seq[i]): ascending and stable.  SortedOrder is the list
\* of the indices of seq in sorted order.
RECURSIVE SortedOrder(_, _)
SortedOrder(keys, n) ==
    IF n = 0
    THEN <<>>
    ELSE LET before == SortedOrder(keys, n - 1)
             k == Cardinality({i \in 1..(n - 1) : keys[i] <= keys[n]})
         IN  SubSeq(before, 1, k) \o <<n>> \o SubSeq(before, k + 1, n - 1)

SortByKeys(seq, keys) ==
    LET order == SortedOrder(keys, Len(seq))
    IN  [i \in 1..Len(seq) |-> seq[order[i]]]

\* first loop of buildLastDaysReport: one key per offset, from offset down
\* to 0, of the date of at moved by setDate(getDate() - offset)
RECURSIVE lastDaysKeys(_, _, _)
lastDaysKeys(minuteByDay, at, offset) ==
    IF offset < 0
    THEN minuteByDay
    ELSE LET today == DayOf(at)
             date == Midnight(SetDate(today, CivilFromDay(today).day - offset))
                        + (at % MsPerDay)
         IN  lastDaysKeys(MapSet(minuteByDay, toDayKey(date), 0), at,
                          offset - 1)

\* second loop of buildLastDaysReport, from entry i on
RECURSIVE addLogMinutes(_, _, _, _)
addLogMinutes(minuteByDay, ls, i, at) ==
    IF i > Len(ls)
    THEN minuteByDay
    ELSE LET log == ls[i]
             dayKey == toDayKey(log.startTime)
         IN  IF ~MapHas(minuteByDay, dayKey)
             THEN addLogMinutes(minuteByDay, ls, i + 1, at)
             ELSE LET logMinutes == getLogMinutes(log, at)
                      current == MapGet(minuteByDay, dayKey)
                  IN  addLogMinutes(
                          MapSet(minuteByDay, dayKey, current + logMinutes),
                          ls, i + 1, at)

\* the points of the map; the label is the weekday of the key's date
reportPoints(minuteByDay, hourlyRate) ==
    [i \in 1..Len(minuteByDay) |->
        LET dayKey == minuteByDay[i][1]
            minutes == minuteByDay[i][2]
            date == MakeDay(dayKey[1], dayKey[2] - 1, dayKey[3])
        IN  [dayKey |-> dayKey,
             dayLabel |-> WeekDay(date),
             minutes |-> minutes,
             hours |-> <<minutes, 60>>,
             earnings |-> <<minutes * hourlyRate, 60>>]]

buildLastDaysReport_EndsYesterday(ls, days, hourlyRate, at) == reportPoints(addLogMinutes(lastDaysKeys(<<>>, at - MsPerDay, days - 1), ls, 1, at), hourlyRate)
buildLastDaysReport_NoMinutes(ls, days, hourlyRate, at) == reportPoints(lastDaysKeys(<<>>, at, days - 1), hourlyRate)
buildLastDaysReport(ls, days, hourlyRate, at) ==
    reportPoints(addLogMinutes(lastDaysKeys(<<>>, at, days - 1), ls, 1, at),
                 hourlyRate)

NoSummary ==
    [minutes |-> 0, sessions |-> 0, firstIn |-> Null, lastOut |-> Null]

\* the loop of daySummaryByKey, from entry i on
RECURSIVE collectDaySummary(_, _, _, _)
collectDaySummary(summary, ls, i, at) ==
    IF i > Len(ls)
    THEN summary
    ELSE LET log == ls[i]
             dayKey == toDayKey(log.startTime)
             workedMinutes == getLogMinutes(log, at)
             endTime == IF log.endTime # Null THEN log.endTime[1] ELSE at
             existing == IF MapHas(summary, dayKey)
                         THEN MapGet(summary, dayKey)
                         ELSE NoSummary
             updated ==
                 [minutes |-> existing.minutes + workedMinutes,
                  sessions |-> existing.sessions + 1,
                  firstIn |->
                      IF existing.firstIn = Null
                            \/ log.startTime < existing.firstIn[1]
                      THEN Some(log.startTime)
                      ELSE existing.firstIn,
                  lastOut |->
                      IF existing.lastOut = Null
                            \/ endTime > existing.lastOut[1]
                      THEN Some(endTime)
                      ELSE existing.lastOut]
         IN  collectDaySummary(MapSet(summary, dayKey, updated), ls, i + 1, at)

daySummaryByKey_SkipsFirst(ls, at) == collectDaySummary(<<>>, ls, 2, at)
daySummaryByKey(ls, at) == collectDaySummary(<<>>, ls, 1, at)

\* the work week of a local day: the day number of its Monday
WorkWeekStartDay(day) ==
    LET mondayStart ==
            IF WeekDay(day) = 0
            THEN SetDate(day, CivilFromDay(day).day - 1)
            ELSE day
        mondayIndex == (WeekDay(mondayStart) + 6) % 7
    IN  SetDate(mondayStart, CivilFromDay(mondayStart).day - mondayIndex)

getWorkWeekStartMonday_SundayForward(date) == Midnight(DayOf(date) - (WeekDay(DayOf(date)) - 1))
getWorkWeekStartMonday(date) == Midnight(WorkWeekStartDay(DayOf(date)))

getWorkWeekEndSaturday(startDate) ==
    LET day == DayOf(startDate)
        saturdayEnd == SetDate(day, CivilFromDay(day).day + 5)
    IN  Midnight(saturdayEnd) + (MsPerDay - 1)

\* the loop of groupLogsByWorkWeek over the sorted entries, from entry i on
RECURSIVE collectWeeks(_, _, _, _)
collectWeeks(groups, sortedLogs, i, at) ==
    IF i > Len(sortedLogs)
    THEN groups
    ELSE LET log == sortedLogs[i]
             weekStart == getWorkWeekStartMonday(log.startTime)
             weekKey == toDayKey(weekStart)
             group == IF MapHas(groups, weekKey)
                      THEN MapGet(groups, weekKey)
                      ELSE [key |-> weekKey,
                            startDate |-> weekStart,
                            endDate |-> getWorkWeekEndSaturday(weekStart),
                            logs |-> <<>>,
                            totalMinutes |-> 0]
             pushed == [group EXCEPT
                          !.logs = Append(@, log),
                          !.totalMinutes = @ + getLogMinutes(log, at)]
         IN  collectWeeks(MapSet(groups, weekKey, pushed), sortedLogs,
                          i + 1, at)

sumLogMinutes(ls, at) ==
    LET reduce[n \in 0..Len(ls)] ==
            IF n = 0 THEN 0 ELSE reduce[n - 1] + getLogMinutes(ls[n], at)
    IN  reduce[Len(ls)]

sortLogsByStartTime(ls) ==
    SortByKeys(ls, [i \in 1..Len(ls) |-> ls[i].startTime])

sortGroupsByStartDate(groups) ==
    LET values == [i \in 1..Len(groups) |-> groups[i][2]]
    IN  SortByKeys(values, [i \in 1..Len(values) |-> values[i].startDate])

groupLogsByWorkWeek_SkipsFirst(ls, at) == sortGroupsByStartDate(collectWeeks(<<>>, sortLogsByStartTime(ls), 2, at))
groupLogsByWorkWeek_InputOrder(ls, at) == sortGroupsByStartDate(collectWeeks(<<>>, ls, 1, at))
groupLogsByWorkWeek(ls, at) ==
    LET sortedLogs == sortLogsByStartTime(ls)
    IN  sortGroupsByStartDate(collectWeeks(<<>>, sortedLogs, 1, at))

---------------------------------------------------------------------------
(* The calendar grid of the dashboard, part_000.  A month text matching   *)
(* /^(\d{4})-(\d{2})$/ is the pair <<year, month>> of its two numbers;    *)
(* any other text is <<>>.  The Date of a cell is the day number of its   *)
(* local midnight.                                                         *)

parseMonthInputValue(value) ==
    IF Len(value) # 2
    THEN Null
    ELSE LET year == value[1]
             month == value[2]
         IN  IF month < 1 \/ month > 12
             THEN Null
             ELSE Some([year |-> year, monthIndex |-> month - 1])

toMonthInputValue(date) ==
    LET c == CivilFromDay(DayOf(date)) IN <<c.year, c.month>>

buildCalendarCells(monthValue) ==
    LET parsed == parseMonthInputValue(monthValue)
        fallback == CivilFromDay(DayOf(now))
        year == IF parsed # Null THEN parsed[1].year ELSE fallback.year
        monthIndex ==
            IF parsed # Null THEN parsed[1].monthIndex ELSE fallback.month - 1
        firstOfMonth == NewDate(year, monthIndex, 1)
        firstWeekdayMondayIndex == (WeekDay(firstOfMonth) + 6) % 7
        daysInMonth == CivilFromDay(NewDate(year, monthIndex + 1, 0)).day
        totalCells == ((firstWeekdayMondayIndex + daysInMonth + 6) \div 7) * 7
    IN  [n \in 1..totalCells |->
            LET index == n - 1
                day == index - firstWeekdayMondayIndex + 1
            IN  IF day < 1 \/ day > daysInMonth
                THEN [key |-> [empty |-> index], date |-> Null]
                ELSE [key |-> [month |-> monthValue, day |-> day],
                      date |-> Some(NewDate(year, monthIndex, day))]]

---------------------------------------------------------------------------
(* Specification SpecReport: the reports of the dashboard over the entries *)
(* and the clock it holds.  The entries start on the days -MaxDay..MaxDay  *)
(* around 1970-01-01, which puts a month end, a year end, two Sundays and  *)
(* three work weeks among them.                                            *)

ReportDays == (0 - MaxDay)..MaxDay

\* an entry logged by hand for the first minutes of day d, and an entry
\* clocked in a little later that day and still running; the running
\* entries are those of the days of the clock
CompletedOn(d) ==
    normalizeTimeLog(
        addManualLog([userId |-> UserId, startTime |-> Midnight(d),
                      endTime |-> Midnight(d) + MaxMin * MsPerMinute]).add[1])
RunningOn(d) ==
    normalizeTimeLog(
        startTimerLog([userId |-> UserId,
                       startTime |-> Midnight(d) + Grain]).add[1])

ReportLogs == {CompletedOn(d) : d \in ReportDays}
                \cup {RunningOn(d) : d \in {0, MaxDay}}
LogLists == UNION {[1..n -> ReportLogs] : n \in 0..MaxLogs}
ReportNows == {Midnight(d) + MsPerDay \div 2 : d \in {0, MaxDay}}
ReportWindows == {0, 1, MaxWindow}
HourlyRates == {0, 20}

InitReport ==
    /\ NoSession
    /\ logs \in LogLists
    /\ now \in ReportNows
    /\ calcOut = NoOut
    /\ doc = NoLog
    /\ hist = <<>>
    /\ calcLog = NoLog
    /\ clockBack = FALSE
    /\ idle = InitialIdle
    /\ calendarMonth = NoMonth

BuildLastDaysReport ==
    \E days \in ReportWindows, hourlyRate \in HourlyRates :
        /\ calcOut' = [fn |-> "buildLastDaysReport", days |-> days,
                       value |-> buildLastDaysReport(logs, days, hourlyRate,
                                                     now)]
        /\ UNCHANGED <<sessionVars, doc, now, hist, calcLog, logs, clockBack, idle,
                       calendarMonth>>

DaySummaryByKey ==
    /\ calcOut' = [fn |-> "daySummaryByKey",
                   value |-> daySummaryByKey(logs, now)]
    /\ UNCHANGED <<sessionVars, doc, now, hist, calcLog, logs, clockBack, idle,
                   calendarMonth>>

GroupLogsByWorkWeek ==
    /\ calcOut' = [fn |-> "groupLogsByWorkWeek",
                   value |-> groupLogsByWorkWeek(logs, now)]
    /\ UNCHANGED <<sessionVars, doc, now, hist, calcLog, logs, clockBack, idle,
                   calendarMonth>>

NextReport == BuildLastDaysReport \/ DaySummaryByKey \/ GroupLogsByWorkWeek

SpecReport == InitReport /\ [][NextReport]_vars

---------------------------------------------------------------------------
(* Specification SpecCalendar: the month picker of the dashboard.  The     *)
(* month text starts as the month of the current date; the picker sets any *)
(* month text, and every render computes the cells of the month text.      *)

CalendarYears == {50, 1900, 2000, 2023, 2024}
MonthTexts ==
    (CalendarYears \X (1..12)) \cup {<<>>, <<2024, 0>>, <<2024, 13>>}
CalendarNows == {Midnight(d) : d \in {-1, 0}}

Rendered(monthValue) ==
    [fn |-> "buildCalendarCells", monthValue |-> monthValue,
     value |-> buildCalendarCells(monthValue)]

InitCalendar ==
    /\ NoSession
    /\ now \in CalendarNows
    /\ calendarMonth = toMonthInputValue(now)
    /\ calcOut = NoOut
    /\ doc = NoLog
    /\ hist = <<>>
    /\ calcLog = NoLog
    /\ logs = <<>>
    /\ clockBack = FALSE
    /\ idle = InitialIdle

BuildCalendarCells ==
    /\ calcOut' = Rendered(calendarMonth)
    /\ calcOut' # calcOut
    /\ UNCHANGED <<sessionVars, doc, now, hist, calcLog, logs, clockBack, idle,
                   calendarMonth>>

SetCalendarMonth ==
    \E value \in MonthTexts :
        /\ value # calendarMonth
        /\ calendarMonth' = value
        /\ calcOut' = Rendered(value)
        /\ UNCHANGED <<sessionVars, doc, now, hist, calcLog, logs, clockBack, idle>>

CalendarDayPasses ==
    /\ now < Midnight(0)
    /\ now' = now + MsPerDay
    /\ UNCHANGED <<sessionVars, doc, hist, calcLog, calcOut, logs, clockBack, idle,
                   calendarMonth>>

NextCalendar == BuildCalendarCells \/ SetCalendarMonth \/ CalendarDayPasses

SpecCalendar == InitCalendar /\ [][NextCalendar]_vars

---------------------------------------------------------------------------
(* Specification SpecSession: the dashboard component over the timeLogs    *)
(* collection of one user.  A handler sends its write and awaits it: the   *)
(* write is in pending until it settles, and reaches logs only with a      *)
(* later snapshot.  The buttons are disabled while busy; a click is also a *)
(* window event of trackActivity.  The component can be unmounted and      *)
(* mounted again, the user can sign out and in.                            *)

restVars == <<doc, calcLog, calcOut, clockBack, calendarMonth, profileVars,
              error, pdfVars>>

\* the onSnapshot callback of subscribeTimeLogs: the ids of the user's
\* documents, sorted by startTime descending
snapshotIds(userId, docs) ==
    LET keys == [i \in 1..Len(docs) |-> 0 - TimestampToDate(docs[i].startTime)]
        order == SortedOrder(keys, Len(docs))
        Mine(i) == docs[i].userId = userId
    IN  SelectSeq(order, Mine)

snapshotLogs(docs, ids) ==
    [k \in 1..Len(ids) |-> normalizeTimeLog(docs[ids[k]])]

\* the id of activeLog; 0 without one
activeLogId(ls, ids) ==
    LET running == {i \in 1..Len(ls) : ls[i].endTime = Null}
    IN  IF running = {}
        THEN 0
        ELSE ids[CHOOSE i \in running : \A j \in running : i <= j]

\* hist lists the writes sent, and "signOut" once the user has signed out
SignedOut == \E i \in 1..Len(hist) : hist[i] = "signOut"
WritesSent == Len(hist) - (IF SignedOut THEN 1 ELSE 0)

\* setBusy(true), the call of the data layer, and what follows at once: an
\* early return leaves busy alone, a thrown error runs finally, a write
\* sent stays pending
Sent(op, id, r) ==
    IF r = Returned
    THEN UNCHANGED <<busy, pending, hist>>
    ELSE IF r.err # None
         THEN busy' = FALSE /\ UNCHANGED <<pending, hist>>
         ELSE /\ WritesSent < MaxOps
              /\ busy' = TRUE
              /\ pending' = Append(pending, [id |-> id, r |-> r])
              /\ hist' = Append(hist, op)

\* the collection as earlier sessions left it: empty, or a running entry
InitSession ==
    /\ store \in {<<>>, <<IdleActive>>}
    /\ logs = <<>>
    /\ logIds = <<>>
    /\ busy = FALSE
    /\ pending = <<>>
    /\ user = Null
    /\ mounted = TRUE
    /\ now = 0
    /\ renderedNow = 0
    /\ NoProfile
    /\ error = <<>>
    /\ NoPdf
    /\ idle = InitialIdle
    /\ doc = NoLog
    /\ hist = <<>>
    /\ calcLog = NoLog
    /\ calcOut = NoOut
    /\ clockBack = FALSE
    /\ calendarMonth = NoMonth

\* onAuthStateChanged delivers the user after handleSignIn
SignIn ==
    /\ mounted
    /\ user = Null
    /\ ~busy
    /\ user' = Some(UserId)
    /\ busy' = FALSE
    /\ idle' = trackActivity(idle, now)
    /\ UNCHANGED <<restVars, hist, store, logs, logIds, pending, mounted, now,
                   renderedNow>>

\* handleSignOut, and onAuthStateChanged delivering null: the entries are
\* dropped and the idle effect runs without an activeLog
SignOut ==
    /\ mounted
    /\ user # Null
    /\ user' = Null
    /\ logs' = <<>>
    /\ logIds' = <<>>
    /\ busy' = FALSE
    /\ idle' = idleEffect(trackActivity(idle, now), Null)
    /\ hist' = IF SignedOut THEN hist ELSE Append(hist, "signOut")
    /\ UNCHANGED <<restVars, store, pending, mounted, now, renderedNow>>

\* the component unmounts: every effect is cleaned up
Unmount ==
    /\ mounted
    /\ mounted' = FALSE
    /\ idle' = [idle EXCEPT !.interval = FALSE]
    /\ UNCHANGED <<restVars, hist, store, logs, logIds, busy, pending, user, now,
                   renderedNow>>

\* the component mounts again with fresh state
Mount ==
    /\ ~mounted
    /\ mounted' = TRUE
    /\ user' = Null
    /\ logs' = <<>>
    /\ logIds' = <<>>
    /\ busy' = FALSE
    /\ renderedNow' = now
    /\ idle' = [InitialIdle EXCEPT !.lastActivityRef = now]
    /\ UNCHANGED <<restVars, hist, store, pending, now>>

\* the Clock In / Clock Out button
ClickClockToggle ==
    /\ mounted
    /\ user # Null
    /\ ~busy
    /\ Sent("handleClockToggle", activeLogId(logs, logIds),
            handleClockToggle(user, activeLog(logs), now))
    /\ idle' = trackActivity(idle, now)
    /\ UNCHANGED <<restVars, store, logs, logIds, user, mounted, now,
                   renderedNow>>

\* the Start Break / End Break button
ClickBreakToggle ==
    /\ mounted
    /\ user # Null
    /\ ~busy
    /\ activeLog(logs) # Null
    /\ Sent("handleBreakToggle", activeLogId(logs, logIds),
            handleBreakToggle(activeLog(logs), now))
    /\ idle' = trackActivity(idle, now)
    /\ UNCHANGED <<restVars, store, logs, logIds, user, mounted, now,
                   renderedNow>>

\* the callback of the idle interval; Cancel in the prompt calls
\* handleBreakToggle
IdlePrompt ==
    /\ mounted
    /\ idle.interval
    /\ LET c == idleCheck(idle, now, IdleMinutes)
       IN  /\ c.raised
           /\ idle' = c.refs
           /\ \E keepTracking \in BOOLEAN :
                 IF keepTracking
                 THEN UNCHANGED <<busy, pending, hist>>
                 ELSE Sent("idle prompt", activeLogId(logs, logIds),
                           handleBreakToggle(activeLog(logs), now))
    /\ UNCHANGED <<restVars, store, logs, logIds, user, mounted, now,
                   renderedNow>>

\* the oldest pending write settles: it is applied to the collection and
\* the handler's finally runs
Settle ==
    /\ pending # <<>>
    /\ LET w == Head(pending)
       IN  store' = IF w.r.add # NoAdd
                    THEN Append(store, w.r.add[1])
                    ELSE [store EXCEPT ![w.id] = updateDoc(@, w.r.update)]
    /\ pending' = Tail(pending)
    /\ busy' = (busy /\ ~mounted)
    /\ UNCHANGED <<restVars, hist, logs, logIds, user, mounted, now, renderedNow,
                   idle>>

\* the subscription delivers the collection to setLogs; the idle effect
\* runs on the new activeLog
SessionSnapshot ==
    /\ mounted
    /\ user # Null
    /\ logIds' = snapshotIds(user[1], store)
    /\ logs' = snapshotLogs(store, logIds')
    /\ logs' # logs
    /\ idle' = idleEffect(idle, activeLog(logs'))
    /\ UNCHANGED <<restVars, hist, store, busy, pending, user, mounted, now,
                   renderedNow>>

\* the callback of the one-second interval: setNow(new Date())
ClockRefresh ==
    /\ mounted
    /\ renderedNow # now
    /\ renderedNow' = now
    /\ UNCHANGED <<restVars, hist, store, logs, logIds, busy, pending, user,
                   mounted, now, idle>>

SessionActivity ==
    /\ mounted
    /\ idle' = trackActivity(idle, now)
    /\ idle' # idle
    /\ UNCHANGED <<restVars, hist, store, logs, logIds, busy, pending, user,
                   mounted, now, renderedNow>>

\* time passes, an idle period at a time
SessionTimePasses ==
    /\ now + IdleMinutes * MsPerMinute <= MaxIdleTime * Grain
    /\ now' = now + IdleMinutes * MsPerMinute
    /\ UNCHANGED <<restVars, hist, store, logs, logIds, busy, pending, user,
                   mounted, renderedNow, idle>>

NextSession ==
    \/ SignIn
    \/ SignOut
    \/ Unmount
    \/ Mount
    \/ ClickClockToggle
    \/ ClickBreakToggle
    \/ IdlePrompt
    \/ Settle
    \/ SessionSnapshot
    \/ ClockRefresh
    \/ SessionActivity
    \/ SessionTimePasses

SpecSession == InitSession /\ [][NextSession]_vars

---------------------------------------------------------------------------
(* The profile of the user, tracker-data.ts.  A value read from a stored   *)
(* document is a JavaScript value: t is its typeof; a number is NaN,       *)
(* Infinity, -Infinity or finite, and a finite number is kept in halves    *)
(* (h = 3 is 1.5); s is the text of a string; a boolean has h = 1 for true. *)

JsValue(t, c, h, s) == [t |-> t, c |-> c, h |-> h, s |-> s]
Undefined == JsValue("undefined", None, 0, "")
JsString(s) == JsValue("string", None, 0, s)
JsBoolean(b) == JsValue("boolean", None, IF b THEN 1 ELSE 0, "")
Num(h) == JsValue("number", "finite", h, "")
Whole(n) == Num(2 * n)
NaN == JsValue("number", "NaN", 0, "")
PosInfinity == JsValue("number", "Infinity", 0, "")
NegInfinity == JsValue("number", "-Infinity", 0, "")

IsNaN(a) == a.c = "NaN"
IsInteger(a) == a.t = "number" /\ a.c = "finite" /\ a.h % 2 = 0

\* a < b of two numbers
Less(a, b) ==
    /\ ~IsNaN(a)
    /\ ~IsNaN(b)
    /\ a # b
    /\ \/ a = NegInfinity
       \/ b = PosInfinity
       \/ a.c = "finite" /\ b.c = "finite" /\ a.h < b.h

MathMax(a, b) ==
    IF IsNaN(a) \/ IsNaN(b) THEN NaN
    ELSE IF Less(a, b) THEN b ELSE a

MathFloor(a) ==
    IF a.c = "finite" THEN Num(2 * (a.h \div 2)) ELSE a

SUPPORTED_CURRENCIES == <<"USD", "EUR", "GBP", "CAD">>

DEFAULT_USER_SETTINGS ==
    [currency |-> "USD", darkMode |-> FALSE, idleMinutes |-> Whole(10)]

readNumber(value, fallback) ==
    IF value.t # "number" \/ IsNaN(value) THEN fallback ELSE value

normalizeCurrency(value) ==
    IF /\ value.t = "string"
       /\ \E i \in 1..Len(SUPPORTED_CURRENCIES) :
              SUPPORTED_CURRENCIES[i] = value.s
    THEN value.s
    ELSE DEFAULT_USER_SETTINGS.currency

\* a stored settings value: an object with its three fields, or not an
\* object
SettingsObject(currency, darkMode, idleMinutes) ==
    [t |-> "object", currency |-> currency, darkMode |-> darkMode,
     idleMinutes |-> idleMinutes]
NoObject ==
    [t |-> "undefined", currency |-> Undefined, darkMode |-> Undefined,
     idleMinutes |-> Undefined]

normalizeSettings(value) ==
    LET raw == IF value.t = "object" THEN value ELSE NoObject
        idleMinutes == readNumber(raw.idleMinutes,
                                  DEFAULT_USER_SETTINGS.idleMinutes)
    IN  [currency |-> normalizeCurrency(raw.currency),
         darkMode |-> IF raw.darkMode.t = "boolean"
                      THEN raw.darkMode.h = 1
                      ELSE DEFAULT_USER_SETTINGS.darkMode,
         idleMinutes |-> MathMax(Whole(1), MathFloor(idleMinutes))]

\* data is <<>> for a document that does not exist
normalizeUser(uid, data) ==
    [uid |-> uid,
     hourlyRate |->
        MathMax(Whole(0),
                readNumber(IF data = Null THEN Undefined
                           ELSE data[1].hourlyRate, Whole(0))),
     settings |->
        normalizeSettings(IF data = Null THEN NoObject
                          ELSE data[1].settings)]

\* the fields setDoc is given; merged into the document they replace its
\* hourlyRate and the three fields of its settings
saveUserProfile(uid, hourlyRate, settings) ==
    [hourlyRate |-> MathMax(Whole(0), hourlyRate),
     settings |->
        [currency |-> settings.currency,
         darkMode |-> settings.darkMode,
         idleMinutes |-> MathMax(Whole(1), MathFloor(settings.idleMinutes))]]

setDocMerge(payload) ==
    Some([hourlyRate |-> payload.hourlyRate,
          settings |->
             SettingsObject(JsString(payload.settings.currency),
                            JsBoolean(payload.settings.darkMode),
                            payload.settings.idleMinutes)])

\* Number.parseFloat and Number.parseInt(text, 10) of the texts of RateTexts and IdleTexts
parseFloat(text) ==
    CASE text = "-1" -> Whole(-1)
      [] text = "0" -> Whole(0)
      [] text = "1.5" -> Num(3)
      [] text = "10" -> Whole(10)
      [] text = "Infinity" -> PosInfinity
      [] OTHER -> NaN

parseInt(text) ==
    CASE text = "-1" -> Whole(-1)
      [] text = "0" -> Whole(0)
      [] text = "1.5" -> Whole(1)
      [] text = "10" -> Whole(10)
      [] OTHER -> NaN

\* handleSaveSettings, part_000: the message it sets, or the fields it has
\* saveUserProfile write
handleSaveSettings(currentUser, prof, hourlyRateInput, idleMinutesInput, currencyInput, darkMode) ==
    IF currentUser = Null \/ prof = Null
    THEN [err |-> None, write |-> Null]
    ELSE LET hourlyRate == parseFloat(hourlyRateInput)
             idleMinutes == parseInt(idleMinutesInput)
         IN  IF IsNaN(hourlyRate) \/ Less(hourlyRate, Whole(0))
             THEN [err |-> "Hourly rate must be zero or more.",
                   write |-> Null]
             ELSE IF IsNaN(idleMinutes) \/ Less(idleMinutes, Whole(1))
             THEN [err |-> "Idle reminder must be at least 1 minute.",
                   write |-> Null]
             ELSE [err |-> None,
                   write |->
                      Some(saveUserProfile(
                               currentUser[1], hourlyRate,
                               [prof[1].settings EXCEPT
                                   !.currency = currencyInput,
                                   !.idleMinutes = idleMinutes,
                                   !.darkMode = darkMode]))]

handleThemeToggle(currentUser, prof, nextDarkMode) ==
    IF currentUser = Null \/ prof = Null
    THEN Null
    ELSE Some(saveUserProfile(currentUser[1], prof[1].hourlyRate,
                              [prof[1].settings EXCEPT
                                  !.darkMode = nextDarkMode]))

---------------------------------------------------------------------------
(* Specification SpecProfile: the settings of a signed-in user.  The       *)
(* stored document of the user and one stored entry hold any raw values;   *)
(* the subscriptions deliver them normalised, the settings form and the    *)
(* theme toggle write the profile.                                         *)

RawRates == {Undefined, NaN, NegInfinity, Num(-1), Num(3)}
RawIdleMinutes ==
    {Undefined, NaN, PosInfinity, Num(-1), Num(3), JsString("10")}
RawCurrencies == {Whole(0), JsString("EUR"), JsString("JPY")}
RawBooleans == {Undefined, JsBoolean(TRUE)}
RawSettings ==
    {NoObject} \cup {SettingsObject(c, d, i) :
                        c \in RawCurrencies, d \in RawBooleans,
                        i \in RawIdleMinutes}
RawUserDocs ==
    {Null} \cup {Some([hourlyRate |-> r, settings |-> s]) :
                    r \in RawRates, s \in RawSettings}
RawMinutes == {-1, MaxMin}
RawLogs ==
    {[IdleActive EXCEPT !.totalMinutes = t, !.breakMinutes = 0 - t] :
        t \in RawMinutes}
RateTexts == {"", "-1", "1.5", "Infinity"}
IdleTexts == {"", "0", "1.5", "10"}
CurrencyInputs == {SUPPORTED_CURRENCIES[i] : i \in {1, 2}}

InitProfile ==
    /\ userDoc \in RawUserDocs
    /\ profile = Null
    /\ writtenProfile = Null
    /\ darkModeEnabled = FALSE
    /\ error = Null
    /\ store \in {<<>>} \cup {<<l>> : l \in RawLogs}
    /\ logs = <<>>
    /\ logIds = <<>>
    /\ user = Some(UserId)
    /\ mounted = TRUE
    /\ busy = FALSE
    /\ pending = <<>>
    /\ now = 0
    /\ renderedNow = 0
    /\ NoPdf
    /\ idle = InitialIdle
    /\ doc = NoLog
    /\ hist = <<>>
    /\ calcLog = NoLog
    /\ calcOut = NoOut
    /\ clockBack = FALSE
    /\ calendarMonth = NoMonth

profileRest ==
    <<store, logIds, busy, pending, user, mounted, renderedNow, pdfVars,
      doc, now, calcLog, calcOut, clockBack, idle, calendarMonth>>

\* saveUserProfile's setDoc
Saved(payload) ==
    /\ Len(hist) < MaxOps
    /\ hist' = Append(hist, "saveUserProfile")
    /\ writtenProfile' = Some(payload)
    /\ userDoc' = setDocMerge(payload)

\* the onSnapshot callback of subscribeUserProfile and the effect of
\* setProfile on the form
ProfileSnapshot ==
    /\ user # Null
    /\ profile' = Some(normalizeUser(user[1], userDoc))
    /\ profile' # profile
    /\ darkModeEnabled' = profile'[1].settings.darkMode
    /\ UNCHANGED <<profileRest, userDoc, writtenProfile, error, logs, hist>>

HandleSaveSettings ==
    \E hourlyRateInput \in RateTexts, idleMinutesInput \in IdleTexts,
       currencyInput \in CurrencyInputs, darkMode \in BOOLEAN :
        LET r == handleSaveSettings(user, profile, hourlyRateInput,
                                    idleMinutesInput, currencyInput,
                                    darkMode)
        IN  /\ profile # Null
            /\ darkModeEnabled' = darkMode
            /\ IF r.write = Null
               THEN /\ error' = Some(r.err)
                    /\ UNCHANGED <<userDoc, writtenProfile, hist>>
               ELSE /\ error' = Null
                    /\ Saved(r.write[1])
            /\ UNCHANGED <<profileRest, profile, logs>>

HandleThemeToggle ==
    LET nextDarkMode == ~darkModeEnabled
        write == handleThemeToggle(user, profile, nextDarkMode)
    IN  /\ darkModeEnabled' = nextDarkMode
        /\ IF write = Null
           THEN UNCHANGED <<userDoc, writtenProfile, hist>>
           ELSE Saved(write[1])
        /\ UNCHANGED <<profileRest, profile, error, logs>>

\* the onSnapshot callback of subscribeTimeLogs
LogsSnapshot ==
    /\ user # Null
    /\ logs' = snapshotLogs(store, snapshotIds(user[1], store))
    /\ logs' # logs
    /\ UNCHANGED <<profileRest, profileVars, error, hist>>

NextProfile ==
    \/ ProfileSnapshot
    \/ HandleSaveSettings
    \/ HandleThemeToggle
    \/ LogsSnapshot

SpecProfile == InitProfile /\ [][NextProfile]_vars

---------------------------------------------------------------------------
(* The PDF export of the dashboard, part_000.  The text of a date input   *)
(* is <<year, month, day>> for YYYY-MM-DD and <<>> when it is empty; the    *)
(* field selection is the set of the keys whose box is ticked.             *)

PDF_FIELD_OPTIONS ==
    <<"date", "timeIn", "timeOut", "duration", "project", "task", "status",
      "earnings", "note">>

defaultPdfFieldSelection == {"date", "timeIn", "timeOut", "duration"}

toInputDateValue(date) ==
    LET c == CivilFromDay(DayOf(date)) IN <<c.year, c.month, c.day>>

\* new Date(`${text}T...`) for the time of day msOfDay: <<>> is an Invalid
\* Date
parseLocalDate(text, msOfDay) ==
    IF Len(text) # 3
    THEN Null
    ELSE Some(Midnight(MakeDay(text[1], text[2] - 1, text[3])) + msOfDay)

exportRange_EndAtMidnight(startText, endText) == [startDate |-> parseLocalDate(startText, 0), endDate |-> parseLocalDate(endText, 0)]
exportRange(startText, endText) ==
    [startDate |-> parseLocalDate(startText, 0),
     endDate |-> parseLocalDate(endText, MsPerDay - 1)]

NoDocument == Null

\* exportPdf: the message it sets, or the document it saves: its file name,
\* its columns, and per work week the heading and the rows of the entries
exportPdf(ls, startText, endText, selection, at) ==
    LET range == exportRange(startText, endText)
        Selected(key) == key \in selection
        selectedFields == SelectSeq(PDF_FIELD_OPTIONS, Selected)
        InRange(log) == /\ log.startTime >= range.startDate[1]
                        /\ log.startTime <= range.endDate[1]
        filteredLogs == sortLogsByStartTime(SelectSeq(ls, InRange))
        groupedLogs == groupLogsByWorkWeek(filteredLogs, at)
    IN  IF Len(ls) = 0
        THEN [err |-> "No logs available to export.",
              document |-> NoDocument]
        ELSE IF range.startDate = Null \/ range.endDate = Null
        THEN [err |-> "Select a valid start and end date.",
              document |-> NoDocument]
        ELSE IF range.startDate[1] > range.endDate[1]
        THEN [err |-> "Start date must be before or equal to end date.",
              document |-> NoDocument]
        ELSE IF Len(selectedFields) = 0
        THEN [err |-> "Select at least one field for PDF export.",
              document |-> NoDocument]
        ELSE IF Len(filteredLogs) = 0
        THEN [err |-> "No logs found in that date range.",
              document |-> NoDocument]
        ELSE [err |-> None,
              document |->
                 Some([fileName |-> <<startText, endText>>,
                       columns |-> selectedFields,
                       weeks |->
                          [g \in 1..Len(groupedLogs) |->
                              [startDate |-> groupedLogs[g].startDate,
                               endDate |-> groupedLogs[g].endDate,
                               totalMinutes |-> groupedLogs[g].totalMinutes,
                               rows |-> groupedLogs[g].logs]]])]

---------------------------------------------------------------------------
(* Specification SpecExport: the export dialog over the entries the        *)
(* subscription delivers: entries starting at the first and at the last    *)
(* millisecond of 1970-01-01 and at the first of the day after.            *)

ExportDays == {0, 1}

StartingAt(ms) ==
    normalizeTimeLog(
        addManualLog([userId |-> UserId, startTime |-> ms,
                      endTime |-> ms + MaxMin * MsPerMinute]).add[1])

ExportLogs ==
    {StartingAt(Midnight(0)), StartingAt(Midnight(1) - 1),
     StartingAt(Midnight(1))}
ExportLists == UNION {[1..n -> ExportLogs] : n \in 0..MaxLogs}
PdfDateTexts == {<<>>} \cup {toInputDateValue(Midnight(d)) : d \in ExportDays}
ToggledFields == defaultPdfFieldSelection

dialogVars ==
    <<showPdfExportModal, pdfStartDate, pdfEndDate, pdfFieldSelection>>

exportRest ==
    <<store, logIds, busy, pending, user, mounted, renderedNow, profileVars,
      doc, now, hist, calcLog, calcOut, clockBack, idle, calendarMonth>>

InitExport ==
    /\ logs \in ExportLists
    /\ now = Midnight(1) + MsPerDay
    /\ showPdfExportModal = FALSE
    /\ pdfStartDate = toInputDateValue(now)
    /\ pdfEndDate = toInputDateValue(now)
    /\ pdfFieldSelection = defaultPdfFieldSelection
    /\ savedPdf = NoDocument
    /\ error = Null
    /\ user = Some(UserId)
    /\ mounted = TRUE
    /\ renderedNow = now
    /\ store = <<>>
    /\ logIds = <<>>
    /\ busy = FALSE
    /\ pending = <<>>
    /\ NoProfile
    /\ idle = InitialIdle
    /\ doc = NoLog
    /\ hist = <<>>
    /\ calcLog = NoLog
    /\ calcOut = NoOut
    /\ clockBack = FALSE
    /\ calendarMonth = NoMonth

OpenPdfExportModal ==
    /\ ~showPdfExportModal
    /\ savedPdf' = NoDocument
    /\ IF Len(logs) = 0
       THEN /\ error' = Some("No logs available to export.")
            /\ UNCHANGED dialogVars
       ELSE LET starts == {logs[i].startTime : i \in 1..Len(logs)}
                earliest == CHOOSE s \in starts : \A t \in starts : s <= t
                latest == CHOOSE s \in starts : \A t \in starts : s >= t
            IN  /\ pdfStartDate' = toInputDateValue(earliest)
                /\ pdfEndDate' = toInputDateValue(latest)
                /\ pdfFieldSelection' = defaultPdfFieldSelection
                /\ error' = Null
                /\ showPdfExportModal' = TRUE
    /\ UNCHANGED <<exportRest, logs>>

ClosePdfExportModal ==
    /\ showPdfExportModal
    /\ showPdfExportModal' = FALSE
    /\ savedPdf' = NoDocument
    /\ UNCHANGED <<exportRest, logs, pdfStartDate, pdfEndDate,
                   pdfFieldSelection, error>>

TogglePdfField ==
    \E field \in ToggledFields :
        /\ showPdfExportModal
        /\ pdfFieldSelection' =
              IF field \in pdfFieldSelection
              THEN pdfFieldSelection \ {field}
              ELSE pdfFieldSelection \cup {field}
        /\ savedPdf' = NoDocument
        /\ UNCHANGED <<exportRest, logs, showPdfExportModal, pdfStartDate,
                       pdfEndDate, error>>

ResetPdfFields ==
    /\ showPdfExportModal
    /\ pdfFieldSelection' = defaultPdfFieldSelection
    /\ pdfFieldSelection' # pdfFieldSelection
    /\ savedPdf' = NoDocument
    /\ UNCHANGED <<exportRest, logs, showPdfExportModal, pdfStartDate,
                   pdfEndDate, error>>

SetPdfStartDate ==
    \E text \in PdfDateTexts :
        /\ showPdfExportModal
        /\ text # pdfStartDate
        /\ pdfStartDate' = text
        /\ savedPdf' = NoDocument
        /\ UNCHANGED <<exportRest, logs, showPdfExportModal, pdfEndDate,
                       pdfFieldSelection, error>>

SetPdfEndDate ==
    \E text \in PdfDateTexts :
        /\ showPdfExportModal
        /\ text # pdfEndDate
        /\ pdfEndDate' = text
        /\ savedPdf' = NoDocument
        /\ UNCHANGED <<exportRest, logs, showPdfExportModal, pdfStartDate,
                       pdfFieldSelection, error>>

ExportPdf ==
    LET r == exportPdf(logs, pdfStartDate, pdfEndDate, pdfFieldSelection,
                       now)
    IN  /\ showPdfExportModal
        /\ IF r.err # None
           THEN /\ error' = Some(r.err)
                /\ savedPdf' = NoDocument
                /\ UNCHANGED dialogVars
           ELSE /\ savedPdf' = r.document
                /\ showPdfExportModal' = FALSE
                /\ error' = Null
                /\ UNCHANGED <<pdfStartDate, pdfEndDate, pdfFieldSelection>>
        /\ UNCHANGED <<exportRest, logs>>

\* the onSnapshot callback of subscribeTimeLogs delivers another list
ExportLogsSnapshot ==
    /\ logs' \in ExportLists
    /\ logs' # logs
    /\ savedPdf' = NoDocument
    /\ UNCHANGED <<exportRest, dialogVars, error>>

NextExport ==
    \/ OpenPdfExportModal
    \/ ClosePdfExportModal
    \/ TogglePdfField
    \/ ResetPdfFields
    \/ SetPdfStartDate
    \/ SetPdfEndDate
    \/ ExportPdf
    \/ ExportLogsSnapshot

SpecExport == InitExport /\ [][NextExport]_vars

---------------------------------------------------------------------------
(* Specification SpecCalc: the calculator applied to any TimeLog and now *)

\* every TimeLog the calculator can be handed, malformed ones included
AnyLogs ==
    [ startTime      : Times,
      endTime        : Opt(Times),
      totalMinutes   : 0..MaxMin,
      breakMinutes   : (0 - 1)..MaxMin,
      breaks         : {<<>>},
      status         : LogStatus,
      breakStartedAt : Opt(Times) ]

InitCalc ==
    /\ NoSession
    /\ calcLog \in AnyLogs
    /\ now \in Times
    /\ calcOut = NoOut
    /\ doc = NoLog
    /\ hist = <<>>
    /\ logs = <<>>
    /\ clockBack = FALSE
    /\ idle = InitialIdle
    /\ calendarMonth = NoMonth

CalcWorkedMilliseconds ==
    /\ calcOut' = [fn |-> "calculateWorkedMilliseconds",
                   value |-> calculateWorkedMilliseconds(calcLog, now)]
    /\ UNCHANGED <<sessionVars, doc, now, hist, calcLog, logs, clockBack, idle,
                 calendarMonth>>

CalcWorkedMinutes ==
    /\ calcOut' = [fn |-> "calculateWorkedMinutes",
                   value |-> calculateWorkedMinutes(calcLog, now)]
    /\ UNCHANGED <<sessionVars, doc, now, hist, calcLog, logs, clockBack, idle,
                 calendarMonth>>

GetLogMinutes ==
    /\ calcOut' = [fn |-> "getLogMinutes",
                   value |-> getLogMinutes(calcLog, now)]
    /\ UNCHANGED <<sessionVars, doc, now, hist, calcLog, logs, clockBack, idle,
                 calendarMonth>>

NextCalc ==
    \/ CalcWorkedMilliseconds
    \/ CalcWorkedMinutes
    \/ GetLogMinutes

SpecCalc == InitCalc /\ [][NextCalc]_vars

---------------------------------------------------------------------------
(* Claims about the duration calculator, checked under SpecCalc *)

\* the formula of the design, section 4.1, written out on the calculator's input
GrossMs == Max(0, (IF calcLog.endTime = Null THEN now ELSE calcLog.endTime[1])
                  - calcLog.startTime)

RunningBreakMs ==
    IF calcLog.status = "on-break" /\ calcLog.breakStartedAt # Null
    THEN Max(0, now - calcLog.breakStartedAt[1])
    ELSE 0

WorkedMsUnclampedBreak ==
    Max(0, GrossMs - calcLog.breakMinutes * MsPerMinute - RunningBreakMs)

WorkedMsClampedBreak ==
    Max(0, GrossMs - Max(0, calcLog.breakMinutes) * MsPerMinute - RunningBreakMs)

\* C1: calculateWorkedMilliseconds(entry, now) is >= 0 for every entry and
\* every now: negative breakMinutes, now before startTime, now before
\* breakStartedAt, endTime set or null, any status.
C1_WorkedMsNonNegative ==
    calcOut.fn = "calculateWorkedMilliseconds" => calcOut.value >= 0

\* C1 witness: the calculator has run on a malformed on-break entry under
\* clock skew (now before startTime and before breakStartedAt, negative
\* breakMinutes).
C1_Witness ==
    /\ calcOut.fn = "calculateWorkedMilliseconds"
    /\ calcLog.breakMinutes < 0
    /\ calcLog.endTime = Null
    /\ now < calcLog.startTime
    /\ calcLog.status = "on-break"
    /\ calcLog.breakStartedAt # Null
    /\ now < calcLog.breakStartedAt[1]

\* C2 as stated: the result is max(0, grossMs - breakMinutes*60000 -
\* runningBreakMs), and calculateWorkedMinutes is its floor over 60000.
C2_Original ==
    /\ calcOut.fn = "calculateWorkedMilliseconds"
          => calcOut.value = WorkedMsUnclampedBreak
    /\ calcOut.fn = "calculateWorkedMinutes"
          => calcOut.value = WorkedMsUnclampedBreak \div MsPerMinute

\* C2 amended: the result is max(0, grossMs - max(0, breakMinutes)*60000 -
\* runningBreakMs) with runningBreakMs = max(0, now - breakStartedAt) when
\* status is on-break and breakStartedAt is recorded and 0 otherwise;
\* calculateWorkedMinutes is its floor over 60000.
C2_WorkedMsFormula ==
    /\ calcOut.fn = "calculateWorkedMilliseconds"
          => calcOut.value = WorkedMsClampedBreak
    /\ calcOut.fn = "calculateWorkedMinutes"
          => calcOut.value = WorkedMsClampedBreak \div MsPerMinute

\* C2 witness: the calculator has run on an on-break entry with no recorded
\* breakStartedAt and returned the gross time less the stored breaks.
C2_Witness ==
    /\ calcOut.fn = "calculateWorkedMilliseconds"
    /\ calcLog.status = "on-break"
    /\ calcLog.breakStartedAt = Null
    /\ calcLog.endTime = Null
    /\ calcLog.breakMinutes >= 0
    /\ calcOut.value > 0
    /\ calcOut.value = GrossMs - calcLog.breakMinutes * MsPerMinute

\* C3 as stated: getLogMinutes is max(totalMinutes, workedMinutes) for every
\* entry with status completed and workedMinutes for every entry with status
\* active or on-break.  Stated on entries with breakMinutes >= 0, as
\* normalizeTimeLog delivers them, where it already fails.
C3_Original ==
    (calcOut.fn = "getLogMinutes" /\ calcLog.breakMinutes >= 0) =>
        IF calcLog.status = "completed"
        THEN calcOut.value = Max(calcLog.totalMinutes,
                                 WorkedMsClampedBreak \div MsPerMinute)
        ELSE calcOut.value = WorkedMsClampedBreak \div MsPerMinute

\* C3 amended: getLogMinutes is max(totalMinutes, workedMinutes) for every
\* entry whose endTime is set and workedMinutes for every entry whose endTime
\* is null, whatever the status.
C3_LogMinutesByEndTime ==
    calcOut.fn = "getLogMinutes" =>
        IF calcLog.endTime # Null
        THEN calcOut.value = Max(calcLog.totalMinutes,
                                 WorkedMsClampedBreak \div MsPerMinute)
        ELSE calcOut.value = WorkedMsClampedBreak \div MsPerMinute

\* C3 witness: getLogMinutes has run on a completed entry whose stored
\* totalMinutes is above the recomputed worked minutes, and returned the
\* stored value.
C3_Witness ==
    /\ calcOut.fn = "getLogMinutes"
    /\ calcLog.status = "completed"
    /\ calcLog.endTime # Null
    /\ calcLog.totalMinutes > WorkedMsClampedBreak \div MsPerMinute
    /\ calcOut.value = calcLog.totalMinutes

---------------------------------------------------------------------------
(* Claims about the lifecycle writes, checked under SpecOps *)

Ran == Len(hist) > 0
Last == hist[Len(hist)]
\* the entry the last operation was applied to, as its caller saw it
Pre == normalizeTimeLog(Last.data)
\* the entry as the subscription delivers it now
Cur == normalizeTimeLog(doc)

FloorMinutes(ms) == Max(0, ms \div MsPerMinute)

BreakRecord(b, e) ==
    [startTime |-> toISOString(b), endTime |-> toISOString(e),
     durationMinutes |-> FloorMinutes(e - b)]

\* the worked example of the design: start 09:00, break 12:00 to 12:30,
\* clock-out 17:00, run through the lifecycle writes
T0900 == 9 * 60 * MsPerMinute
T1200 == 12 * 60 * MsPerMinute
T1230 == T1200 + 30 * MsPerMinute
T1700 == 17 * 60 * MsPerMinute

ExampleStarted ==
    [userId |-> UserId,
     startTime |-> TimestampFromDate(T0900), endTime |-> Null,
     totalMinutes |-> 0, breakMinutes |-> 0, breaks |-> <<>>,
     status |-> "active", breakStartedAt |-> Null, source |-> "timer"]
ExampleOnBreak == Written(ExampleStarted, startBreak(LogId, T1200))
ExampleResumed ==
    Written(ExampleOnBreak, endBreak(normalizeTimeLog(ExampleOnBreak), T1230))
ExampleDone ==
    normalizeTimeLog(
        Written(ExampleResumed, clockOut(normalizeTimeLog(ExampleResumed), T1700)))

\* C4: clock-out at t on an active entry yields endTime = t, status =
\* completed, breakStartedAt = null, breakMinutes unchanged and totalMinutes =
\* max(0, max(0, floor((t - startTime)/60000)) - breakMinutes); the 09:00 to
\* 17:00 day with one 30-minute break gives breakMinutes 30, totalMinutes 450.
C4_ClockOutActive ==
    /\ (Ran /\ Last.op = "clockOut" /\ Pre.status = "active") =>
          /\ Last.err = None
          /\ Cur.endTime = Some(Last.at)
          /\ Cur.status = "completed"
          /\ Cur.breakStartedAt = Null
          /\ Cur.breakMinutes = Pre.breakMinutes
          /\ Cur.totalMinutes =
                Max(0, FloorMinutes(Last.at - Pre.startTime) - Pre.breakMinutes)
    /\ ExampleDone.breakMinutes = 30
    /\ ExampleDone.totalMinutes = 450
    /\ ExampleDone.totalMinutes + ExampleDone.breakMinutes = 480
    /\ ExampleDone.status = "completed"
    /\ ExampleDone.endTime = Some(T1700)

\* C4 witness: an active entry with a completed break on it was clocked out
\* a full minute or more after its start.
C4_Witness ==
    /\ Ran /\ Last.op = "clockOut" /\ Pre.status = "active"
    /\ Pre.breakMinutes > 0
    /\ Last.at - Pre.startTime >= MsPerMinute
    /\ Cur.status = "completed"

\* C5: for an on-break entry with a recorded breakStartedAt, end-break at t
\* followed by clock-out at t leaves the same entry (breakMinutes, breaks,
\* totalMinutes, endTime, status, breakStartedAt) as one clock-out at t
\* applied to the on-break entry.
C5_EndBreakThenClockOut ==
    (/\ Len(hist) >= 2
     /\ hist[Len(hist) - 1].op = "endBreak"
     /\ hist[Len(hist) - 1].err = None
     /\ normalizeTimeLog(hist[Len(hist) - 1].data).status = "on-break"
     /\ Last.op = "clockOut"
     /\ Last.at = hist[Len(hist) - 1].at) =>
        LET before == hist[Len(hist) - 1].data
            direct == normalizeTimeLog(
                        Written(before, clockOut(normalizeTimeLog(before), Last.at)))
        IN  /\ Cur.breakMinutes = direct.breakMinutes
            /\ Cur.breaks = direct.breaks
            /\ Cur.totalMinutes = direct.totalMinutes
            /\ Cur.endTime = direct.endTime
            /\ Cur.status = direct.status
            /\ Cur.breakStartedAt = direct.breakStartedAt
            /\ Cur = direct

\* C5 witness: end-break and then clock-out ran on an on-break entry whose
\* break lasted a minute or more and which had breaks recorded before.
C5_Witness ==
    /\ Len(hist) >= 2
    /\ hist[Len(hist) - 1].op = "endBreak"
    /\ hist[Len(hist) - 1].err = None
    /\ normalizeTimeLog(hist[Len(hist) - 1].data).status = "on-break"
    /\ normalizeTimeLog(hist[Len(hist) - 1].data).breakMinutes > 0
    /\ Last.op = "clockOut"
    /\ Len(Cur.breaks) = 2
    /\ Cur.breaks[2].durationMinutes > 0

\* C6: end-break at t on an on-break entry with breakStartedAt = b appends the
\* one record {start b, end t, durationMinutes d}, d = max(0, floor((t-b)/60000)),
\* to the end of breaks, adds d to breakMinutes, clears breakStartedAt, sets
\* status = active, and leaves startTime, endTime and totalMinutes as they were.
C6_EndBreak ==
    (/\ Ran /\ Last.op = "endBreak"
     /\ Pre.status = "on-break" /\ Pre.breakStartedAt # Null) =>
        LET b == Pre.breakStartedAt[1]
            t == Last.at
        IN  /\ Last.err = None
            /\ Cur.breaks = Append(Pre.breaks, BreakRecord(b, t))
            /\ Cur.breakMinutes = Pre.breakMinutes + FloorMinutes(t - b)
            /\ Cur.breakStartedAt = Null
            /\ Cur.status = "active"
            /\ Cur.startTime = Pre.startTime
            /\ Cur.endTime = Pre.endTime
            /\ Cur.totalMinutes = Pre.totalMinutes
            /\ doc.startTime = Last.data.startTime
            /\ doc.endTime = Last.data.endTime
            /\ doc.totalMinutes = Last.data.totalMinutes

\* C6 witness: end-break ran on an on-break entry that already had a break
\* recorded, a minute or more after the break began.
C6_Witness ==
    /\ Ran /\ Last.op = "endBreak"
    /\ Pre.status = "on-break" /\ Pre.breakStartedAt # Null
    /\ Len(Pre.breaks) > 0
    /\ Last.at - Pre.breakStartedAt[1] >= MsPerMinute
    /\ Len(Cur.breaks) = Len(Pre.breaks) + 1

\* C7: start-break at t on an active entry sets status = on-break and
\* breakStartedAt = t and leaves startTime, endTime, breakMinutes, breaks and
\* totalMinutes as they were.
C7_StartBreak ==
    (Ran /\ Last.op = "startBreak" /\ Pre.status = "active") =>
        /\ Last.err = None
        /\ Cur.status = "on-break"
        /\ Cur.breakStartedAt = Some(Last.at)
        /\ Cur.startTime = Pre.startTime
        /\ Cur.endTime = Pre.endTime
        /\ Cur.breakMinutes = Pre.breakMinutes
        /\ Cur.breaks = Pre.breaks
        /\ Cur.totalMinutes = Pre.totalMinutes
        /\ [f \in DOMAIN doc \ {"status", "breakStartedAt"} |-> doc[f]]
              = [f \in DOMAIN doc \ {"status", "breakStartedAt"} |-> Last.data[f]]

\* C7 witness: start-break ran on a running active entry that carries break
\* minutes and a recorded break.
C7_Witness ==
    /\ Ran /\ Last.op = "startBreak" /\ Pre.status = "active"
    /\ Pre.endTime = Null
    /\ Pre.breakStartedAt = Null
    /\ Pre.breakMinutes > 0
    /\ Len(Pre.breaks) > 0
    /\ Cur.status = "on-break"

\* an entry as the lifecycle writes leave it: endTime set exactly when
\* completed, breakStartedAt set exactly when on-break
WellFormed(log) ==
    /\ (log.endTime # Null) <=> (log.status = "completed")
    /\ (log.breakStartedAt # Null) <=> (log.status = "on-break")

\* C8: start-break on an entry whose status is not active (on-break or
\* completed) fails with an invalid-state error and leaves the entry as it
\* was.  Stated on well-formed entries, where it already fails.
C8_StartBreakRejected ==
    (Ran /\ Last.op = "startBreak" /\ Pre.status # "active" /\ WellFormed(Pre)) =>
        /\ Last.err = InvalidStateError
        /\ doc = Last.data

\* C9: end-break fails and writes nothing when its preconditions are unmet:
\* with an invalid-state error on an entry that is not on-break, and with the
\* distinct missing-break-start fault on an on-break entry with no
\* breakStartedAt.  The first case is stated on well-formed entries, where it
\* already fails.
C9_EndBreakRejected ==
    /\ (Ran /\ Last.op = "endBreak" /\ Pre.status # "on-break"
            /\ WellFormed(Pre)) =>
          /\ Last.err \notin {None, BreakStartMissing}
          /\ doc = Last.data
    /\ (Ran /\ Last.op = "endBreak" /\ Pre.status = "on-break"
            /\ Pre.breakStartedAt = Null) =>
          /\ Last.err = BreakStartMissing
          /\ doc = Last.data

\* C10: clock-out on an already completed entry is a no-op or fails: endTime,
\* totalMinutes, breakMinutes and breaks are after the call what they were
\* before it.  Stated on well-formed entries, where it already fails.
C10_ClockOutCompleted ==
    (Ran /\ Last.op = "clockOut" /\ Pre.status = "completed" /\ WellFormed(Pre)) =>
        /\ Cur.endTime = Pre.endTime
        /\ Cur.totalMinutes = Pre.totalMinutes
        /\ Cur.breakMinutes = Pre.breakMinutes
        /\ Cur.breaks = Pre.breaks

---------------------------------------------------------------------------
(* Claims on the edit, under SpecEdit *)

\* C15: an edit with newEnd > newStart sets startTime = newStart, endTime =
\* newEnd, status = completed, breakStartedAt = null and totalMinutes =
\* max(0, floor((newEnd - newStart)/60000) - breakMinutes), and leaves
\* breakMinutes and breaks as they were, whatever the status before.
C15_EditAccepted ==
    (Ran /\ Last.op = "updateTimeLog"
         /\ Last.input.endTime > Last.input.startTime) =>
       /\ Last.err = None
       /\ Cur.startTime = Last.input.startTime
       /\ Cur.endTime = Some(Last.input.endTime)
       /\ Cur.status = "completed"
       /\ Cur.breakStartedAt = Null
       /\ Cur.totalMinutes =
             Max(0, ((Last.input.endTime - Last.input.startTime)
                        \div MsPerMinute) - Pre.breakMinutes)
       /\ Cur.breakMinutes = Pre.breakMinutes
       /\ Cur.breaks = Pre.breaks
       /\ doc.breakMinutes = Last.data.breakMinutes
       /\ doc.breaks = Last.data.breaks

\* C15 witness: an entry on break, with break minutes stored and a break
\* recorded, was edited to a span of a minute or more.
C15_Witness ==
    /\ Ran /\ Last.op = "updateTimeLog" /\ Last.err = None
    /\ Pre.status = "on-break" /\ Pre.breakStartedAt # Null
    /\ Pre.breakMinutes > 0 /\ Len(Pre.breaks) > 0
    /\ Last.input.endTime - Last.input.startTime >= MsPerMinute
    /\ Cur.status = "completed"

\* C16: an edit with newEnd <= newStart fails with the validation error and
\* leaves the stored entry exactly as it was.
C16_EditRejected ==
    (Ran /\ Last.op = "updateTimeLog"
         /\ Last.input.endTime <= Last.input.startTime) =>
       /\ Last.err = EndNotLater
       /\ doc = Last.data

\* C16 witness: a running entry was edited with an end earlier than the
\* start, and is still running.
C16_Witness ==
    /\ Ran /\ Last.op = "updateTimeLog"
    /\ Last.input.endTime < Last.input.startTime
    /\ Last.err = EndNotLater
    /\ Pre.status = "active" /\ Pre.endTime = Null
    /\ Cur.status = "active" /\ Cur.endTime = Null

---------------------------------------------------------------------------
(* Claims on the creation of an entry, under SpecApp *)

ClockToggled == Ran /\ Last.op = "handleClockToggle"
ManualSubmitted == Ran /\ Last.op = "handleManualSubmit"

\* the instants the manual form's texts of the last submission parse to
ManualStart ==
    parseDateAndTime(Last.input.manualDate, Last.input.manualStartTime)
ManualEnd ==
    parseDateAndTime(Last.input.manualDate, Last.input.manualEndTime)

\* C11: start-timer creates an entry with status = active, endTime = null,
\* breakMinutes = 0, breaks = [], breakStartedAt = null, totalMinutes = 0,
\* origin = timer, startTime = the start instant supplied and owner = the
\* acting user.
C11_StartTimerCreates ==
    (ClockToggled /\ Last.input.currentUser # Null
                  /\ Last.input.activeLog = Null) =>
       /\ Last.err = None
       /\ doc.status = "active" /\ Cur.status = "active"
       /\ doc.endTime = Null /\ Cur.endTime = Null
       /\ doc.breakMinutes = 0 /\ Cur.breakMinutes = 0
       /\ doc.breaks = <<>> /\ Cur.breaks = <<>>
       /\ doc.breakStartedAt = Null /\ Cur.breakStartedAt = Null
       /\ doc.totalMinutes = 0 /\ Cur.totalMinutes = 0
       /\ doc.source = "timer" /\ Cur.source = "timer"
       /\ Cur.startTime = Last.at
       /\ Cur.userId = Last.input.currentUser[1]

\* C11 witness: the signed-in user started the timer later than the first
\* instant, and the entry is stored.
C11_Witness ==
    /\ ClockToggled /\ Last.input.currentUser = Some(UserId)
    /\ Last.input.activeLog = Null
    /\ Last.at > 0
    /\ doc.status = "active" /\ Cur.startTime = Last.at

\* C12: start-timer with no owner fails with a validation error and creates
\* no entry.
C12_StartTimerNoOwner ==
    (ClockToggled /\ Last.input.currentUser = Null
                  /\ Last.input.activeLog = Null) =>
       /\ Last.err # None
       /\ doc.status = None

\* C13: manual-log with end > start creates an entry with status =
\* completed, startTime = start, endTime = end, breakMinutes = 0, breaks =
\* [], breakStartedAt = null, origin = manual and totalMinutes =
\* max(0, floor((end - start)/60000)).
C13_ManualLogCreates ==
    (ManualSubmitted /\ Last.input.currentUser # Null
                     /\ ManualStart # Null /\ ManualEnd # Null
                     /\ ManualEnd[1] > ManualStart[1]) =>
       /\ Last.err = None
       /\ doc.status = "completed" /\ Cur.status = "completed"
       /\ Cur.startTime = ManualStart[1]
       /\ Cur.endTime = ManualEnd
       /\ doc.breakMinutes = 0 /\ Cur.breakMinutes = 0
       /\ doc.breaks = <<>> /\ Cur.breaks = <<>>
       /\ doc.breakStartedAt = Null /\ Cur.breakStartedAt = Null
       /\ doc.source = "manual" /\ Cur.source = "manual"
       /\ Cur.totalMinutes =
             Max(0, (ManualEnd[1] - ManualStart[1]) \div MsPerMinute)
       /\ doc.totalMinutes = Cur.totalMinutes

\* C13 witness: a manual entry of a minute or more is stored.
C13_Witness ==
    /\ ManualSubmitted /\ Last.err = None
    /\ ManualStart # Null /\ ManualEnd # Null
    /\ ManualEnd[1] - ManualStart[1] >= MsPerMinute
    /\ doc.status = "completed" /\ doc.source = "manual"
    /\ doc.totalMinutes > 0

\* C14: manual-log with end <= start fails with the validation error and no
\* entry is created.
C14_ManualLogRejected ==
    (ManualSubmitted /\ Last.input.currentUser # Null
                     /\ ManualStart # Null /\ ManualEnd # Null
                     /\ ManualEnd[1] <= ManualStart[1]) =>
       /\ Last.err = ManualLogInvalid
       /\ doc.status = None

\* C14 witness: the form was submitted with an end before its start, the
\* message was set and the store is still empty.
C14_Witness ==
    /\ ManualSubmitted /\ Last.input.currentUser = Some(UserId)
    /\ ManualStart # Null /\ ManualEnd # Null
    /\ ManualEnd[1] < ManualStart[1]
    /\ Last.err = ManualLogInvalid
    /\ doc.status = None

---------------------------------------------------------------------------
(* Claims on the states an entry goes through, under SpecApp *)

Stored == doc.status # None

\* status of the stored entry as a reader sees it; None before creation
StatusOf(data) ==
    IF data.status = None THEN None ELSE normalizeStatus(data.status)

\* C17: in every state reached by start-timer, start-break, end-break,
\* clock-out and edit, an entry that is on-break has its breakStartedAt
\* recorded, and at most one break is in progress: the one breakStartedAt
\* names, every record of breaks being closed.
C17_OnBreakHasStart ==
    Stored =>
       /\ doc.status = "on-break" => doc.breakStartedAt # Null
       /\ Cur.status = "on-break" => Cur.breakStartedAt # Null
       /\ \A i \in 1..Len(Cur.breaks) :
             DOMAIN Cur.breaks[i] = {"startTime", "endTime", "durationMinutes"}

\* C17 witness: a second break is in progress on an entry that already has
\* a closed one.
C17_Witness ==
    /\ Stored /\ Ran /\ Last.op = "handleBreakToggle" /\ Last.err = None
    /\ Cur.status = "on-break" /\ Cur.breakStartedAt = Some(Last.at)
    /\ Len(Cur.breaks) > 0

\* C18: in every reachable state, the states reached by a break toggle
\* applied on a stale snapshot around a clock-out included, an entry whose
\* endTime is set has status completed.
C18_EndTimeMeansCompleted ==
    Stored =>
       /\ doc.endTime # Null => doc.status = "completed"
       /\ Cur.endTime # Null => Cur.status = "completed"

AllowedStatusChanges ==
    { <<None, "active">>, <<None, "completed">>,
      <<"active", "on-break">>, <<"on-break", "active">>,
      <<"active", "completed">>, <<"on-break", "completed">> }

\* C20: the status of an entry changes only from nothing to its status at
\* creation, active to on-break, on-break to active, and active or on-break
\* to completed; it never leaves completed.
C20_StatusChanges ==
    [][StatusOf(doc') # StatusOf(doc) =>
          <<StatusOf(doc), StatusOf(doc')>> \in AllowedStatusChanges]_vars

---------------------------------------------------------------------------
(* Claim on the break records, under SpecSkew *)

BreakStart(b) == b.startTime.iso
BreakEnd(b) == b.endTime.iso

\* each record starts no later than it ends and no earlier than the record
\* before it ends
BreaksOrdered(bs) ==
    \A i \in 1..Len(bs) :
       /\ BreakStart(bs[i]) <= BreakEnd(bs[i])
       /\ i > 1 => BreakStart(bs[i]) >= BreakEnd(bs[i - 1])

\* C19 as stated: the breaks list of every reachable entry is ordered and
\* non-overlapping.
C19_Original == Stored => BreaksOrdered(Cur.breaks)

\* C19: as long as the clock has not been set back, the breaks list of the
\* entry is chronologically ordered and non-overlapping: each record has
\* start <= end and starts no earlier than the previous record ends; a break
\* in progress starts no earlier than the last record ends.
C19_BreaksOrdered ==
    (Stored /\ ~clockBack) =>
       /\ BreaksOrdered(Cur.breaks)
       /\ (Cur.breakStartedAt # Null /\ Len(Cur.breaks) > 0) =>
             Cur.breakStartedAt[1] >= BreakEnd(Cur.breaks[Len(Cur.breaks)])

\* C19 witness: with a clock never set back, two breaks of different
\* instants are recorded, the second starting after the first ended.
C19_Witness ==
    /\ Stored /\ ~clockBack
    /\ Len(Cur.breaks) = 2
    /\ BreakStart(Cur.breaks[1]) < BreakEnd(Cur.breaks[1])
    /\ BreakEnd(Cur.breaks[1]) < BreakStart(Cur.breaks[2])

---------------------------------------------------------------------------
(* Claim on the break bookkeeping, under SpecApp *)

RECURSIVE SumDurations(_)
SumDurations(bs) ==
    IF bs = <<>> THEN 0 ELSE Head(bs).durationMinutes + SumDurations(Tail(bs))

IsPrefix(a, b) ==
    /\ Len(a) <= Len(b)
    /\ \A i \in 1..Len(a) : a[i] = b[i]

\* breakMinutes of the entry is the sum of the durations of its break records
BreakSumHolds == Stored => Cur.breakMinutes = SumDurations(Cur.breaks)

\* C30: after any sequence of start-break, end-break, clock-out and edit on
\* an entry created by start-timer or manual-log, breakMinutes is the sum of
\* durationMinutes over breaks, and no operation removes or alters a break
\* record already in the list.
C30_BreaksCountedOnce ==
    [][(doc'.status # None) =>
          /\ normalizeTimeLog(doc').breakMinutes =
                SumDurations(normalizeTimeLog(doc').breaks)
          /\ Stored => IsPrefix(Cur.breaks, normalizeTimeLog(doc').breaks)]_vars

---------------------------------------------------------------------------
(* Claims on the idle monitor, under SpecIdle and SpecIdleFair *)

IdleThresholdMs == IdleMinutes * MsPerMinute

\* a prompt is due: the interval is installed, nothing was prompted since the
\* flag was last cleared, and the threshold has passed since the last activity
IdleDue ==
    /\ idle.interval
    /\ ~idle.idlePromptedRef
    /\ now - idle.lastActivityRef >= IdleThresholdMs

\* C21: between two consecutive activity events the monitor raises at most
\* one idle signal, whatever the tracked entry does in between, and a signal
\* is raised only at a tick with now - lastActivity >= idleMinutes * 60000.
C21_OneSignalPerIdlePeriod ==
    /\ idle.signals <= 1
    /\ idle.signal # Null => idle.signal[1].idleFor >= IdleThresholdMs

\* C22: while the tracked entry stays active and the interval keeps firing,
\* a due prompt is eventually raised unless activity is observed or the
\* entry stops being active first, and no more than one is raised until the
\* next activity; after that activity and another threshold the same holds.
C22_SignalRaisedOncePerPeriod ==
    /\ [](~idle.left => idle.signals <= 1)
    /\ [](idle.signals > 0 => idle.signal # Null)
    /\ (IdleDue ~> (\/ idle.idlePromptedRef
                    \/ ~idle.interval
                    \/ now - idle.lastActivityRef < IdleThresholdMs))

\* C22 witness: a second signal was raised, one threshold after an activity
\* that followed the first, the entry having stayed active since.
C22_Witness ==
    /\ idle.total = 2 /\ idle.signals = 1 /\ ~idle.left
    /\ idle.idlePromptedRef /\ idle.interval
    /\ idle.lastActivityRef > 0
    /\ idle.signal # Null
    /\ idle.signal[1].at - idle.lastActivityRef >= IdleThresholdMs

\* C23: an idle signal is raised only while the dashboard has a running
\* entry whose status is active.
C23_SignalOnlyWhileActive ==
    idle.signal # Null => idle.signal[1].status = "active"

\* C23 witness: a signal was raised, and the entry has since gone on break
\* without a further signal.
C23_Witness ==
    /\ idle.signal # Null /\ idle.total = 1
    /\ StatusSeen(logs) = "on-break"
    /\ now - idle.lastActivityRef >= IdleThresholdMs
    /\ now > idle.signal[1].at

---------------------------------------------------------------------------
(* The calendar grid, under SpecCalendar *)

CellsBuilt == calcOut # NoOut /\ calcOut.fn = "buildCalendarCells"

\* what the grid of year y and month m (1..12) is to be: offset blank cells,
\* the local midnights of days 1..daysInMonth, then fewer than 7 blank cells
GridOf(cells, y, m) ==
    LET first == MakeDay(y, m - 1, 1)
        offset == (WeekDay(first) + 6) % 7
        dim == DaysInMonth(y, m)
        total == ((offset + dim + 6) \div 7) * 7
    IN  /\ Len(cells) = total
        /\ total % 7 = 0
        /\ total - offset - dim < 7
        /\ \A n \in 1..Len(cells) :
              IF n > offset /\ n <= offset + dim
              THEN cells[n].date = Some(first + (n - offset - 1))
              ELSE cells[n].date = Null

\* C29: for every year and month the grid has ceil((offset + daysInMonth)/7)*7
\* cells, offset = (weekday of day 1 + 6) mod 7 of them blank in front, then
\* the local midnights of days 1..daysInMonth in order, then fewer than 7
\* blank cells.  Violated for the years 0 to 99.
C29_GridOfEveryMonth ==
    (CellsBuilt /\ parseMonthInputValue(calcOut.monthValue) # Null)
        => GridOf(calcOut.value, calcOut.monthValue[1], calcOut.monthValue[2])

\* the same for the years the Date constructor takes as they are
GridHoldsFromYear100 ==
    (/\ CellsBuilt
     /\ parseMonthInputValue(calcOut.monthValue) # Null
     /\ calcOut.monthValue[1] >= 100)
        => GridOf(calcOut.value, calcOut.monthValue[1], calcOut.monthValue[2])

\* a 30-day month starting on a Wednesday has two blank cells in front
WednesdayMonthReached ==
    /\ CellsBuilt
    /\ calcOut.monthValue = <<2023, 11>>
    /\ Len(calcOut.value) = 35
    /\ calcOut.value[2].date = Null
    /\ calcOut.value[3].date = Some(MakeDay(2023, 10, 1))

---------------------------------------------------------------------------
(* The reports, under SpecReport *)

ReportBuilt == calcOut # NoOut /\ calcOut.fn = "buildLastDaysReport"
SummaryBuilt == calcOut # NoOut /\ calcOut.fn = "daySummaryByKey"
WeeksBuilt == calcOut # NoOut /\ calcOut.fn = "groupLogsByWorkWeek"

KeyOfDay(n) ==
    LET c == CivilFromDay(n) IN <<c.year, c.month, c.day>>

\* the entries of ls that start on a day whose key is in keys
StartingOn(ls, keys) ==
    {j \in 1..Len(ls) : KeyOfDay(DayOf(ls[j].startTime)) \in keys}

\* the sum of getLogMinutes over the entries of ls with index in picked
MinutesOf(ls, picked, at) ==
    LET sum[n \in 0..Len(ls)] ==
            IF n = 0 THEN 0
            ELSE sum[n - 1]
                    + (IF n \in picked THEN getLogMinutes(ls[n], at) ELSE 0)
    IN  sum[Len(ls)]

PointMinutes(points) ==
    LET sum[n \in 0..Len(points)] ==
            IF n = 0 THEN 0 ELSE sum[n - 1] + points[n].minutes
    IN  sum[Len(points)]

\* the days of the window of N days ending at the day of the clock
WindowKeys(N) == {KeyOfDay(DayOf(now) - k) : k \in 0..(N - 1)}

\* C24: the report of N days has exactly N points, one per calendar day of
\* the N consecutive days ending at the day of now, oldest first, across
\* month and year ends; a day without entries is present with 0 minutes.
C24_OnePointPerDay ==
    ReportBuilt =>
        LET points == calcOut.value
            N == calcOut.days
        IN  /\ Len(points) = N
            /\ \A i \in 1..Len(points) :
                  /\ points[i].dayKey = KeyOfDay(DayOf(now) - (N - i))
                  /\ StartingOn(logs, {points[i].dayKey}) = {}
                        => points[i].minutes = 0

C24_Witness ==
    /\ ReportBuilt
    /\ calcOut.days = MaxWindow
    /\ Len(calcOut.value) = MaxWindow
    /\ calcOut.value[1].dayKey[1] = 1969
    /\ calcOut.value[MaxWindow].dayKey = <<1970, 1, 1>>
    /\ \E i \in 1..MaxWindow : calcOut.value[i].minutes = 0
    /\ \E i \in 1..MaxWindow : calcOut.value[i].minutes > 0

SummaryMinutes(summary, dayKey) ==
    IF MapHas(summary, dayKey) THEN MapGet(summary, dayKey).minutes ELSE 0

\* C25: the minutes of a point are the sum of getLogMinutes over exactly the
\* entries that start on its day, which is the minutes of the daily summary
\* of that day (0 without a bucket); the total of the report is that sum
\* over the N days, and an entry starting outside them adds nothing.
C25_PointMinutesAreDayMinutes ==
    ReportBuilt =>
        LET points == calcOut.value
        IN  /\ \A i \in 1..Len(points) :
                  /\ points[i].minutes =
                        MinutesOf(logs, StartingOn(logs, {points[i].dayKey}),
                                  now)
                  /\ points[i].minutes =
                        SummaryMinutes(daySummaryByKey(logs, now),
                                       points[i].dayKey)
            /\ PointMinutes(points) =
                  MinutesOf(logs, StartingOn(logs, WindowKeys(calcOut.days)),
                            now)

C25_Witness ==
    /\ ReportBuilt
    /\ calcOut.days = MaxWindow
    /\ StartingOn(logs, WindowKeys(MaxWindow)) # {}
    /\ StartingOn(logs, WindowKeys(MaxWindow)) # 1..Len(logs)
    /\ PointMinutes(calcOut.value) > 0

EndOrNow(log) == IF log.endTime # Null THEN log.endTime[1] ELSE now

\* C26: the daily summary has a bucket exactly for the days on which an
\* entry starts; its minutes are the sum of getLogMinutes of those entries,
\* its sessions their number, firstIn their earliest start and lastOut their
\* latest end, now standing for the end of a running entry.
C26_DailySummaryBuckets ==
    SummaryBuilt =>
        LET summary == calcOut.value
        IN  /\ {summary[i][1] : i \in 1..Len(summary)}
                  = {KeyOfDay(DayOf(logs[j].startTime)) : j \in 1..Len(logs)}
            /\ \A i, k \in 1..Len(summary) :
                  summary[i][1] = summary[k][1] => i = k
            /\ \A i \in 1..Len(summary) :
                  LET ofDay == StartingOn(logs, {summary[i][1]})
                      bucket == summary[i][2]
                  IN  /\ bucket.minutes = MinutesOf(logs, ofDay, now)
                      /\ bucket.sessions = Cardinality(ofDay)
                      /\ bucket.firstIn # Null
                      /\ bucket.lastOut # Null
                      /\ \E j \in ofDay : bucket.firstIn[1] = logs[j].startTime
                      /\ \A j \in ofDay : bucket.firstIn[1] <= logs[j].startTime
                      /\ \E j \in ofDay : bucket.lastOut[1] = EndOrNow(logs[j])
                      /\ \A j \in ofDay : bucket.lastOut[1] >= EndOrNow(logs[j])

\* two entries of one day, the later one first in the list and still running
C26_Witness ==
    /\ SummaryBuilt
    /\ Len(logs) = 2
    /\ Len(calcOut.value) = 1
    /\ logs[1].endTime = Null
    /\ logs[2].startTime < logs[1].startTime
    /\ calcOut.value[1][2].sessions = 2
    /\ calcOut.value[1][2].firstIn = Some(logs[2].startTime)
    /\ calcOut.value[1][2].lastOut = Some(now)
    /\ calcOut.value[1][2].minutes > logs[2].totalMinutes

\* the Monday of the work week of a local day: the same week's Monday for
\* Monday to Saturday, the Monday six days earlier for a Sunday
MondayOf(day) ==
    IF WeekDay(day) = 0 THEN day - 6 ELSE day - (WeekDay(day) - 1)

GroupOfWeek(group, monday) ==
    /\ group.key = KeyOfDay(monday)
    /\ group.startDate = Midnight(monday)
    /\ group.endDate = Midnight(monday + 5) + (MsPerDay - 1)
    /\ WeekDay(monday) = 1
    /\ WeekDay(monday + 5) = 6
    /\ group.startDate % MsPerDay = 0
    /\ group.endDate % MsPerDay = ((23 * 60 + 59) * 60 + 59) * 1000 + 999

\* C27: the bucket of an entry is keyed by the local midnight of a Monday:
\* the Monday of its week for a start from Monday to Saturday, the Monday six
\* days earlier for a start on a Sunday (Sunday 2024-03-10 goes to Monday
\* 2024-03-04); the bucket starts at that Monday 00:00:00.000 and ends at the
\* Saturday five days later, 23:59:59.999.
C27_WeekKeyedByMonday ==
    /\ WorkWeekStartDay(MakeDay(2024, 2, 10)) = MakeDay(2024, 2, 4)
    /\ WeeksBuilt =>
          \A j \in 1..Len(logs) :
              \E g \in 1..Len(calcOut.value) :
                  /\ \E n \in 1..Len(calcOut.value[g].logs) :
                        calcOut.value[g].logs[n] = logs[j]
                  /\ GroupOfWeek(calcOut.value[g],
                                 MondayOf(DayOf(logs[j].startTime)))

\* an entry of Sunday 1970-01-04 in the week of Monday 1969-12-29, beside an
\* entry of the Monday after
C27_Witness ==
    /\ WeeksBuilt
    /\ Len(calcOut.value) = 2
    /\ \E j \in 1..Len(logs) : DayOf(logs[j].startTime) = 3
    /\ \E j \in 1..Len(logs) : DayOf(logs[j].startTime) = 4
    /\ calcOut.value[1].key = <<1969, 12, 29>>
    /\ calcOut.value[2].key = <<1970, 1, 5>>

\* C28: the buckets come strictly ascending by week start; the entries of a
\* bucket come ascending by start instant whatever the order of the input;
\* totalMinutes of a bucket is the sum of getLogMinutes(entry, now) over its
\* entries.
C28_WeeksAndEntriesAscending ==
    WeeksBuilt =>
        LET groups == calcOut.value
        IN  /\ \A g \in 1..(Len(groups) - 1) :
                  groups[g].startDate < groups[g + 1].startDate
            /\ \A g \in 1..Len(groups) :
                  /\ \A n \in 1..(Len(groups[g].logs) - 1) :
                        groups[g].logs[n].startTime
                            <= groups[g].logs[n + 1].startTime
                  /\ groups[g].totalMinutes =
                        MinutesOf(groups[g].logs, 1..Len(groups[g].logs), now)

\* the input holds the later entry of a week first
C28_Witness ==
    /\ WeeksBuilt
    /\ Len(logs) = 2
    /\ logs[2].startTime < logs[1].startTime
    /\ Len(calcOut.value) = 1
    /\ calcOut.value[1].logs = <<logs[2], logs[1]>>
    /\ calcOut.value[1].totalMinutes > 0

\* the input holds the entry of the later week first
WeeksSortedReached ==
    /\ WeeksBuilt
    /\ Len(logs) = 2
    /\ logs[2].startTime < logs[1].startTime
    /\ Len(calcOut.value) = 2
    /\ calcOut.value[1].logs = <<logs[2]>>

---------------------------------------------------------------------------
(* The displayed duration, under SpecLife *)

\* what the dashboard shows for the stored entry at instant at:
\* calculateWorkedMinutes while it has no end, getLogMinutes once it has
Displayed(data, at) ==
    LET log == normalizeTimeLog(data)
    IN  IF log.endTime = Null
        THEN calculateWorkedMinutes(log, at)
        ELSE getLogMinutes(log, at)

\* a step of the clock or of a clock or break toggle on an existing entry
LifecycleStep ==
    /\ doc.status # None
    /\ doc'.status # None
    /\ \/ now' # now
       \/ /\ hist' # <<>>
          /\ hist'[1].op \in {"handleClockToggle", "handleBreakToggle"}
          /\ doc' # doc

\* C31: with a clock that only advances, the displayed minutes of an entry
\* never decrease over a clock advance, a start-break, an end-break or a
\* clock-out.  Violated by an end-break computed from a snapshot that is
\* older than the stored entry.
C31_DisplayedNeverDecreases ==
    [][LifecycleStep => Displayed(doc', now') >= Displayed(doc, now)]_vars

\* the same for the transitions taken on a snapshot that is the stored entry
DisplayedNeverDecreasesOnCurrent ==
    [][(LifecycleStep /\ logs = subscribeTimeLogs(UserId, doc))
          => Displayed(doc', now') >= Displayed(doc, now)]_vars

---------------------------------------------------------------------------
(* The duration of a completed entry, under SpecApp *)

\* every instant of the clock, and some after it
AnyNow == {k * Grain : k \in 0..(MaxTime + 2)}

\* getLogMinutes of the stored entry is its totalMinutes at every instant
ClockFree(data) ==
    LET log == normalizeTimeLog(data)
    IN  \A t \in AnyNow : getLogMinutes(log, t) = log.totalMinutes

\* the step is a clock-out of a stored entry that is active or on-break
ClockOutStep ==
    /\ Stored
    /\ doc.endTime = Null
    /\ StatusOf(doc) \in {"active", "on-break"}
    /\ doc' # doc
    /\ hist'[1].op = "handleClockToggle"
    /\ hist'[1].err = None
    /\ hist'[1].input.activeLog # Null

\* the step is an edit that was written
EditStep ==
    /\ Stored
    /\ hist' # hist
    /\ hist'[1].op = "updateTimeLog"
    /\ hist'[1].err = None

\* C32: for the entry a clock-out (of an active or an on-break entry) or an
\* edit produces, getLogMinutes(entry, now) is the stored totalMinutes for
\* every now.
C32_CompletedMinutesClockFree ==
    [][(ClockOutStep \/ EditStep) => ClockFree(doc')]_vars

\* a clock-out of an entry on break has produced a completed entry with a
\* minute of work
C32_Witness ==
    /\ ClockToggled
    /\ Last.err = None
    /\ Last.input.activeLog # Null
    /\ Last.input.activeLog[1].status = "on-break"
    /\ Stored
    /\ Cur.status = "completed"
    /\ Cur.totalMinutes = 1
    /\ ClockFree(doc)

\* an edit has produced a completed entry with a minute of work
EditClockFreeReached ==
    /\ Ran
    /\ Last.op = "updateTimeLog"
    /\ Last.err = None
    /\ Cur.totalMinutes = 1
    /\ ClockFree(doc)

---------------------------------------------------------------------------
(* The dashboard session, under SpecSession *)

\* C33: no lifecycle transition is initiated while the write of an earlier
\* one is pending: at most one write is in flight.  Violated by the break
\* toggle of the idle prompt, which does not look at busy.
C33_OneWriteInFlight == Len(pending) <= 1

\* a clock-out is pending when the idle prompt sends a start-break for the
\* same entry
IdlePromptOverPendingReached ==
    /\ Len(pending) = 2
    /\ hist = <<"handleClockToggle", "idle prompt">>
    /\ pending[1].id = pending[2].id
    /\ pending[1].r.update.status = "completed"
    /\ pending[2].r.update.status = "on-break"

RunningEntries == {i \in 1..Len(store) : store[i].endTime = Null}

\* C34: the user has at most one running entry at any time, also when a
\* write reaches logs only with a later snapshot.  Violated by a second
\* Clock In before the snapshot with the first timer is delivered.
C34_OneRunningEntry == Cardinality(RunningEntries) <= 1

\* a step raises the idle signal
SignalRaised == idle'.idlePromptedRef /\ ~idle.idlePromptedRef

\* a step runs the clock-refresh callback
ClockRefreshed == renderedNow' # renderedNow

\* C35: after logout or teardown, and until a new session starts, no idle
\* signal is raised and no clock-refresh callback fires.  Violated by the
\* one-second interval, which is cleared at unmount only.
C35_LoopsStoppedAfterLogout ==
    [][((~mounted /\ ~mounted')
            \/ (SignedOut /\ user = Null /\ user' = Null /\ mounted'))
          => (~SignalRaised /\ ~ClockRefreshed)]_vars

\* after teardown both loops are stopped
LoopsStoppedAfterUnmount ==
    [][(~mounted /\ ~mounted') => (~SignalRaised /\ ~ClockRefreshed)]_vars

\* after logout the idle-check loop is stopped
IdleStoppedAfterSignOut ==
    [][(user = Null /\ user' = Null) => ~SignalRaised]_vars


\* the number of places of the list seq that hold the entry e
Occurrences(seq, e) == Cardinality({n \in 1..Len(seq) : seq[n] = e})

GroupMinutes(groups) ==
    LET sum[n \in 0..Len(groups)] ==
            IF n = 0 THEN 0 ELSE sum[n - 1] + groups[n].totalMinutes
    IN  sum[Len(groups)]

\* C36: the buckets partition the input: every input entry is in exactly one
\* bucket, as many times as the input holds it and so once per input place;
\* the buckets hold nothing else; no bucket is empty; the totalMinutes of all
\* buckets add up to sumLogMinutes of the whole input at the same now.
C36_WeeksPartitionInput ==
    WeeksBuilt =>
        LET groups == calcOut.value
            Holding(e) == {g \in 1..Len(groups) :
                              Occurrences(groups[g].logs, e) > 0}
        IN  /\ \A j \in 1..Len(logs) :
                  /\ Cardinality(Holding(logs[j])) = 1
                  /\ \A g \in Holding(logs[j]) :
                        Occurrences(groups[g].logs, logs[j])
                            = Occurrences(logs, logs[j])
            /\ \A g \in 1..Len(groups) :
                  /\ groups[g].logs # <<>>
                  /\ \A n \in 1..Len(groups[g].logs) :
                        Occurrences(logs, groups[g].logs[n]) > 0
            /\ GroupMinutes(groups) = sumLogMinutes(logs, now)

\* two entries of two work weeks, one of them still running, land in two
\* buckets of one entry each
C36_Witness ==
    /\ WeeksBuilt
    /\ Len(logs) = 2
    /\ logs[1].endTime = Null
    /\ logs[2].endTime # Null
    /\ Len(calcOut.value) = 2
    /\ Len(calcOut.value[1].logs) = 1
    /\ Len(calcOut.value[2].logs) = 1
    /\ GroupMinutes(calcOut.value) > calcOut.value[1].totalMinutes
    /\ calcOut.value[1].totalMinutes > 0

\* the input holds the same entry twice: both land in the one bucket
RepeatedEntryReached ==
    /\ WeeksBuilt
    /\ Len(logs) = 2
    /\ logs[1] = logs[2]
    /\ Len(calcOut.value) = 1
    /\ Len(calcOut.value[1].logs) = 2


---------------------------------------------------------------------------
(* The calendar grid as a function of its month value, under SpecCalendar *)

\* C37: the cells a call of buildCalendarCells returned are the cells a call
\* with the same month value returns at any later date, whatever happened in
\* between, for every month value, one that does not parse included.
C37_GridPureInMonthValue ==
    CellsBuilt => calcOut.value = buildCalendarCells(calcOut.monthValue)

\* the same for the month values that parse
GridPureWhenParsed ==
    (CellsBuilt /\ parseMonthInputValue(calcOut.monthValue) # Null)
        => calcOut.value = buildCalendarCells(calcOut.monthValue)

\* a grid of a month value that parses, built the day before the year ended
ParsedGridOutlivesYearReached ==
    /\ CellsBuilt
    /\ parseMonthInputValue(calcOut.monthValue) # Null
    /\ calcOut.value[1].date = Some(MakeDay(1969, 11, 1))
    /\ now = Midnight(0)


---------------------------------------------------------------------------
(* The profile and the entries delivered, under SpecProfile *)

GreaterEq(a, b) == ~IsNaN(a) /\ ~IsNaN(b) /\ ~Less(a, b)

InFixedSet(currency) ==
    \E i \in 1..Len(SUPPORTED_CURRENCIES) : SUPPORTED_CURRENCIES[i] = currency

ProfileInRange(hourlyRate, settings) ==
    /\ GreaterEq(hourlyRate, Whole(0))
    /\ IsInteger(settings.idleMinutes)
    /\ GreaterEq(settings.idleMinutes, Whole(1))
    /\ InFixedSet(settings.currency)

\* the same with an idleMinutes of Infinity let through
ProfileInRangeOrUnbounded(hourlyRate, settings) ==
    /\ GreaterEq(hourlyRate, Whole(0))
    /\ IsInteger(settings.idleMinutes) \/ settings.idleMinutes = PosInfinity
    /\ GreaterEq(settings.idleMinutes, Whole(1))
    /\ InFixedSet(settings.currency)

EntriesDeliveredNonNegative ==
    \A i \in 1..Len(logs) :
        logs[i].breakMinutes >= 0 /\ logs[i].totalMinutes >= 0

\* C38: the profile the dashboard holds and the profile saveUserProfile
\* wrote have hourlyRate >= 0, idleMinutes an integer >= 1 and a currency of
\* the fixed set, whatever raw values are stored or submitted; the entries
\* delivered have breakMinutes >= 0 and totalMinutes >= 0.
C38_ProfileWellFormed ==
    /\ profile # Null =>
          ProfileInRange(profile[1].hourlyRate, profile[1].settings)
    /\ writtenProfile # Null =>
          ProfileInRange(writtenProfile[1].hourlyRate,
                     writtenProfile[1].settings)
    /\ EntriesDeliveredNonNegative

\* what holds of C38: the idleMinutes is an integer >= 1 or Infinity
ProfileWellFormedOrUnbounded ==
    /\ profile # Null =>
          ProfileInRangeOrUnbounded(profile[1].hourlyRate, profile[1].settings)
    /\ writtenProfile # Null =>
          ProfileInRangeOrUnbounded(writtenProfile[1].hourlyRate,
                                writtenProfile[1].settings)
    /\ EntriesDeliveredNonNegative

\* a stored idleMinutes of Infinity is delivered as it is, and written back
\* by the theme toggle
UnboundedIdleWrittenReached ==
    /\ profile # Null
    /\ profile[1].settings.idleMinutes = PosInfinity
    /\ writtenProfile # Null
    /\ writtenProfile[1].settings.idleMinutes = PosInfinity
    /\ hist = <<"saveUserProfile">>

\* raw values out of range are delivered in range
RawValuesNormalisedReached ==
    /\ userDoc # Null
    /\ userDoc[1].hourlyRate = Num(-1)
    /\ userDoc[1].settings.idleMinutes = Num(3)
    /\ userDoc[1].settings.currency = JsString("JPY")
    /\ profile # Null
    /\ profile[1].hourlyRate = Whole(0)
    /\ profile[1].settings.idleMinutes = Whole(1)
    /\ profile[1].settings.currency = "USD"
    /\ Len(store) = 1
    /\ store[1].totalMinutes < 0
    /\ Len(logs) = 1
    /\ logs[1].totalMinutes = 0


---------------------------------------------------------------------------
(* The PDF export, under SpecExport *)

\* the local day a date text names
DayOfText(text) == CHOOSE d \in ExportDays : KeyOfDay(d) = text

\* the entry starts in [start date 00:00:00, end date 23:59:59.999]
EntryInRange(log) ==
    /\ pdfStartDate # <<>>
    /\ pdfEndDate # <<>>
    /\ DayOf(log.startTime) >= DayOfText(pdfStartDate)
    /\ DayOf(log.startTime) <= DayOfText(pdfEndDate)

StartAfterEnd ==
    /\ pdfStartDate # <<>>
    /\ pdfEndDate # <<>>
    /\ DayOfText(pdfStartDate) > DayOfText(pdfEndDate)

MustReject ==
    \/ pdfFieldSelection = {}
    \/ logs = <<>>
    \/ StartAfterEnd
    \/ ~\E i \in 1..Len(logs) : EntryInRange(logs[i])

ExportRejected ==
    /\ error' # Null
    /\ savedPdf' = NoDocument
    /\ UNCHANGED dialogVars

\* the rows of all weeks of a document, in their order
RowsOf(document) ==
    LET rows[n \in 0..Len(document.weeks)] ==
            IF n = 0 THEN <<>> ELSE rows[n - 1] \o document.weeks[n].rows
    IN  rows[Len(document.weeks)]

ExportedExactlyRange ==
    LET rows == RowsOf(savedPdf'[1])
    IN  /\ \A i \in 1..Len(logs) :
              Occurrences(rows, logs[i]) =
                  IF EntryInRange(logs[i])
                  THEN Occurrences(logs, logs[i])
                  ELSE 0
        /\ \A n \in 1..Len(rows) : Occurrences(logs, rows[n]) > 0

\* C39: a submit of the export form with no field selected, with no entry
\* starting inside the date range, with the start date after the end date,
\* or with no entries at all sets an error message, saves no document and
\* leaves the dialog state as it was; a submit that saves a document exports
\* exactly the entries starting in [start date 00:00:00, end date
\* 23:59:59.999].
C39_ExportRejectedOrExact ==
    [][ExportPdf =>
          /\ MustReject => ExportRejected
          /\ savedPdf' # NoDocument => ExportedExactlyRange]_vars

\* of an entry in the last millisecond of the end date and an entry in the
\* first of the day after, the first alone is exported
C39_Witness ==
    /\ savedPdf # NoDocument
    /\ ~showPdfExportModal
    /\ Len(logs) = 2
    /\ logs[1].startTime = Midnight(1)
    /\ logs[2].startTime = Midnight(1) - 1
    /\ pdfStartDate = <<1970, 1, 1>>
    /\ pdfEndDate = <<1970, 1, 1>>
    /\ RowsOf(savedPdf[1]) = <<logs[2]>>

NoFieldRejectedReached ==
    /\ showPdfExportModal
    /\ pdfFieldSelection = {}
    /\ error = Some("Select at least one field for PDF export.")
    /\ savedPdf = NoDocument

EmptyRangeRejectedReached ==
    /\ showPdfExportModal
    /\ logs # <<>>
    /\ pdfStartDate = <<1970, 1, 2>>
    /\ pdfEndDate = <<1970, 1, 2>>
    /\ \A i \in 1..Len(logs) : logs[i].startTime < Midnight(1)
    /\ error = Some("No logs found in that date range.")
    /\ savedPdf = NoDocument

StartAfterEndRejectedReached ==
    /\ showPdfExportModal
    /\ pdfStartDate = <<1970, 1, 2>>
    /\ pdfEndDate = <<1970, 1, 1>>
    /\ error = Some("Start date must be before or equal to end date.")
    /\ savedPdf = NoDocument

NoEntriesRejectedReached ==
    /\ showPdfExportModal
    /\ logs = <<>>
    /\ error = Some("No logs available to export.")
    /\ savedPdf = NoDocument

===========================================================================
